---- MODULE Spec2Model ----
(***************************************************************************)
(* Magnum::Vk::DeviceCreateInfo and Magnum::Vk::Device                     *)
(* (src/Magnum/Vk/Device.h, src/Magnum/Vk/Device.cpp).                     *)
(*                                                                         *)
(* Extension names are strings in the code; the code only compares them   *)
(* (operator<, operator!=), so the model numbers them in their sort order: *)
(*    1  VK_EXT_debug_marker          known, not promoted to core          *)
(*    2  VK_KHR_maintenance1          known, core in Vulkan 1.1            *)
(*    3  VK_KHR_vulkan_memory_model   known, core in Vulkan 1.2            *)
(*    4  VK_this_doesnt_exist         not a known extension                *)
(* Versions are the packed Vulkan version numbers; only their order is     *)
(* used: 10 = Vk10, 11 = Vk11, 12 = Vk12, VersionNone is the largest       *)
(* unsigned value.                                                         *)
(***************************************************************************)
EXTENDS Integers, Sequences, FiniteSets, TLC

\* ---------------------------------------------------------------- bounds
MaxArgs == 2
MaxExtensions == 2
MaxQueues == 2
MaxDevices == 2
MaxHandles == 2
MaxPhysicalDevices == 2
MaxFamilies == 2
MaxQueries == 4

\* ------------------------------------------------------ program constants
QueuePrioritiesSize == 32
Vk10 == 10
Vk11 == 11
Vk12 == 12
VersionNone == 99
NullHandle == 0
\* The value of a member that no constructor initialised (Version _version,
\* FlextVkDevice _functionPointers): reading it gives no particular value
Indeterminate == 1000

Names == 1..4
Versions == {Vk10, Vk11, Vk12}
Devices == 1..MaxDevices
Handles == 1..MaxHandles
PhysicalDevices == 1..MaxPhysicalDevices

\* apiVersion() of the two physical devices of the model
ApiVersionOf(pd) == IF pd = 1 THEN Vk11 ELSE Vk12

Min(a, b) == IF a < b THEN a ELSE b

\* Sequences over S of length 0..n
SeqUpTo(S, n) == UNION {[1..k -> S] : k \in 0..n}

\* ------------------------------------------------- known extension tables
\* Extension::extensions(Version): the known device extensions of each core
\* version, each list sorted by name. index is Extension::index().
ExtensionsNone == << [index |-> 0, name |-> 1] >>
ExtensionsVk11 == << [index |-> 1, name |-> 2] >>
ExtensionsVk12 == << [index |-> 2, name |-> 3] >>
KnownExtensionLists == << ExtensionsNone, ExtensionsVk11, ExtensionsVk12 >>
KnownExtensions ==
    UNION {{KnownExtensionLists[l][i] : i \in 1..Len(KnownExtensionLists[l])} : l \in 1..3}
ExtensionIndices == {e.index : e \in KnownExtensions}

\* ------------------------------------------------------------ algorithms
\* std::sort of the disabled extension names (insertion into a sorted list)
RECURSIVE InsertSorted(_, _)
InsertSorted(s, x) ==
    IF s = << >> THEN << x >>
    ELSE IF x < Head(s) THEN << x >> \o s
    ELSE << Head(s) >> \o InsertSorted(Tail(s), x)

RECURSIVE Sort(_)
Sort(s) == IF s = << >> THEN << >> ELSE InsertSorted(Sort(Tail(s)), Head(s))

\* std::lower_bound over keys[first .. first+count-1]: the position of the
\* first key that is not less than x, Len(keys)+1 (end) if there is none
RECURSIVE LowerBoundFrom(_, _, _, _)
LowerBoundFrom(keys, x, first, count) ==
    IF count <= 0 THEN first
    ELSE LET step == count \div 2
             it == first + step
         IN IF keys[it] < x
            THEN LowerBoundFrom(keys, x, it + 1, count - (step + 1))
            ELSE LowerBoundFrom(keys, x, first, step)

LowerBound(keys, x) == LowerBoundFrom(keys, x, 1, Len(keys))

\* std::binary_search: lower_bound, then first != last && !(x < *first)
BinarySearch(keys, x) ==
    LET first == LowerBound(keys, x)
    IN first /= Len(keys) + 1 /\ ~(x < keys[first])

\* A 32-bit flag word is the set of its set bits (bit 31 does not fit the
\* checker's integers): & is intersection, ~ the complement within 0..31
FlagBits == 0..31
BitAnd(a, b) == a \cap b
\* Mutant: ~ clears no bit
BitNotKeepsAll(a) == FlagBits

BitNot(a) == FlagBits \ a

\* ------------------------------------------------------------------ state
VARIABLES
    instance,   \* the Instance: its version, whether it has
                \* VK_KHR_get_physical_device_properties2 enabled (properties2)
                \* and its parsed command-line options (device = --magnum-device)
    info,       \* DeviceCreateInfo::_physicalDevice and ::_info
    state,      \* DeviceCreateInfo::_state (present = FALSE: null pointer)
    device,     \* the Device objects
    native,     \* the Vulkan driver: handles made, CreateDevice/DestroyDevice calls
    physical,   \* the physical devices the driver reports, the DeviceProperties
                \* objects made for them and the queries issued for each
    global,     \* flextVkDevice, the global device-level function pointers:
                \* for each entry, the table (NullHandle or h) it was taken from
    last,       \* the most recent operation and what it returned / printed
    aborted     \* the process was ended by a failed assertion, a fault or
                \* std::exit()

vars == << instance, physical, info, state, device, native, global, last, aborted >>

\* DeviceCreateInfo::Flag::NoImplicitExtensions = 1u << 31
FlagNoImplicitExtensions == {31}

\* DeviceCreateInfo::State as constructed by Containers::InPlaceInit /
\* emplace(): empty arrays, zeroed priorities, nextQueuePriority 0,
\* verboseLog false, version None
EmptyState(present) ==
    [ present            |-> present,
      ownedStrings       |-> << >>,
      extensions         |-> << >>,
      disabledExtensions |-> << >>,
      queues             |-> << >>,
      queuePriorities    |-> [i \in 1..QueuePrioritiesSize |-> 0],
      nextQueuePriority  |-> 0,
      verboseLog         |-> FALSE,
      version            |-> VersionNone ]

\* if(!_state) _state.emplace();
Emplaced(st) == IF st.present THEN st ELSE EmptyState(TRUE)

\* A DeviceCreateInfo object that has not been constructed yet
NoInfo ==
    [ kind                    |-> "none",
      physicalDevice          |-> 0,
      sType                   |-> FALSE,
      flags                   |-> {},
      enabledExtensionCount   |-> 0,
      ppEnabledExtensionNames |-> "null",
      queueCreateInfoCount    |-> 0,
      pQueueCreateInfos       |-> "null",
      appExtensions           |-> << >>,
      appQueues               |-> << >> ]

\* The array ppEnabledExtensionNames points to: _state->extensions.data(),
\* the application's own array (VkDeviceCreateInfo constructor), or nothing
ExtensionArray(i, st) ==
    IF i.ppEnabledExtensionNames = "state" THEN [k \in 1..Len(st.extensions) |-> st.extensions[k].name]
    ELSE IF i.ppEnabledExtensionNames = "app" THEN i.appExtensions
    ELSE << >>

\* ppEnabledExtensionNames[0 .. enabledExtensionCount), what CreateDevice and
\* initializeExtensions() read. The count never exceeds the array in the model.
EnabledExtensionNames(i, st) ==
    SubSeq(ExtensionArray(i, st), 1, Min(i.enabledExtensionCount, Len(ExtensionArray(i, st))))

Range(s) == {s[k] : k \in 1..Len(s)}

\* The storage of a Device before one is constructed in it. Function pointers:
\* NullHandle = all null ({}), h = loaded by flextVkInitDevice() for the
\* device handle h
NoDevice ==
    [ st |-> "none", handle |-> NullHandle, flags |-> FALSE, version |-> Indeterminate,
      extensionStatus |-> {}, state |-> FALSE, fp |-> NullHandle ]

\* What is left in the storage of a Device after ~Device()
DestroyedDevice == [NoDevice EXCEPT !.st = "dead"]

\* The most recent operation, what it printed (error, log) and returned (ret);
\* flags = the Flags a DeviceCreateInfo constructor was given, count = the
\* length of the list addEnabledExtensions() / addQueues() was given; destroyed = the handle it passed to
\* DestroyDevice (NullHandle: none), oob = it read a list element at or past
\* the end of a known-extension list, dev = the Device ~Device() ran on. For
\* populateGlobalFunctionPointers(), which returns nothing, ret is the table
\* the global vkDestroyDevice came from before the call. For the member
\* functions of DeviceProperties, object = the index in the enumerated array of
\* the object it was called on and queries = the number of native queries the
\* call issued; what they return is in physical.ret. exit = the status the
\* operation passed to std::exit(), "" if it did not call it.
Last(op, error, ret) ==
    [op |-> op, error |-> error, ret |-> ret, log |-> << >>, flags |-> {}, count |-> 0,
     destroyed |-> NullHandle, oob |-> FALSE, dev |-> NoDevice, object |-> 0,
     queries |-> 0, exit |-> ""]

\* ------------------------------------------------------- DeviceCreateInfo
\* Mutant: a view of a global string is never copied
OwnsCopyUnlessGlobal(v) == ~v.global

\* !(extension.flags() >= (StringViewFlag::NullTerminated|StringViewFlag::Global)):
\* a view is [name, global, nullTerminated]
OwnsCopy(v) == ~(v.global /\ v.nullTerminated)

\* The loop of addEnabledExtensions(ArrayView<const StringView>). An entry of
\* _state->extensions is [name, owned]: owned = 0 is the pointer the view
\* itself had, owned = k is the data() of the allocation ownedStrings[k] holds
RECURSIVE AppendViews(_, _)
AppendViews(st, views) ==
    IF views = << >> THEN st
    ELSE LET v == Head(views)
         IN IF BinarySearch(st.disabledExtensions, v.name)
            THEN AppendViews(st, Tail(views))
            ELSE IF OwnsCopy(v)
            THEN AppendViews(
                   [st EXCEPT !.ownedStrings = Append(@, v.name),
                              !.extensions = Append(@, [name |-> v.name,
                                                        owned |-> Len(st.ownedStrings) + 1])],
                   Tail(views))
            ELSE AppendViews(
                   [st EXCEPT !.extensions = Append(@, [name |-> v.name, owned |-> 0])],
                   Tail(views))

\* Mutant: the extensions are appended but _info.enabledExtensionCount is not
\* updated
AddEnabledExtensionViewsStaleCount(i, st, views) ==
    IF views = << >> THEN << i, st >>
    ELSE << [i EXCEPT !.ppEnabledExtensionNames = "state"],
            AppendViews(Emplaced(st), views) >>

\* addEnabledExtensions(ArrayView<const StringView>): the new << _info, _state >>
AddEnabledExtensionViews(i, st, views) ==
    IF views = << >> THEN << i, st >>
    ELSE LET st2 == AppendViews(Emplaced(st), views)
         IN << [i EXCEPT !.enabledExtensionCount = Len(st2.extensions),
                         !.ppEnabledExtensionNames = "state"],
               st2 >>

\* Mutant: an extension that is listed already is not listed again
RECURSIVE AppendKnownOnce(_, _)
AppendKnownOnce(st, extensions) ==
    IF extensions = << >> THEN st
    ELSE LET e == Head(extensions)
         IN IF \E k \in 1..Len(st.extensions) : st.extensions[k].name = e.name
            THEN AppendKnownOnce(st, Tail(extensions))
            ELSE AppendKnownOnce(
                   [st EXCEPT !.extensions = Append(@, [name |-> e.name, owned |-> 0])],
                   Tail(extensions))

\* The loop of addEnabledExtensions(ArrayView<const Extension>): the pointer
\* stored is extension.string().data(), the global string
RECURSIVE AppendKnown(_, _)
AppendKnown(st, extensions) ==
    IF extensions = << >> THEN st
    ELSE LET e == Head(extensions)
         IN IF BinarySearch(st.disabledExtensions, e.name)
            THEN AppendKnown(st, Tail(extensions))
            ELSE AppendKnown(
                   [st EXCEPT !.extensions = Append(@, [name |-> e.name, owned |-> 0])],
                   Tail(extensions))

\* addEnabledExtensions(ArrayView<const Extension>): the new << _info, _state >>
AddEnabledExtensionKnown(i, st, extensions) ==
    IF extensions = << >> THEN << i, st >>
    ELSE LET st2 == AppendKnown(Emplaced(st), extensions)
         IN << [i EXCEPT !.enabledExtensionCount = Len(st2.extensions),
                         !.ppEnabledExtensionNames = "state"],
               st2 >>

\* Utility::String::splitWithoutEmptyParts() of a command-line value: views
\* into the argument string, neither global nor null-terminated
SplitViews(names) ==
    [k \in 1..Len(names) |-> [name |-> names[k], global |-> FALSE, nullTerminated |-> FALSE]]

\* Mutant: the disabled extensions are saved without the std::sort
ConstructedStateUnsorted(pd) ==
    [EmptyState(TRUE) EXCEPT
        !.verboseLog = instance.verbose,
        !.version = Min(instance.version, ApiVersionOf(pd)),
        !.disabledExtensions = instance.disable]

\* The state the constructor sets up before adding extensions
ConstructedState(pd) ==
    [EmptyState(TRUE) EXCEPT
        !.verboseLog = instance.verbose,
        !.version = Min(instance.version, ApiVersionOf(pd)),
        !.disabledExtensions = IF instance.disable /= << >> THEN Sort(instance.disable) ELSE << >>]

\* DeviceCreateInfo(DeviceProperties&, const ExtensionProperties*, Flags), also
\* reached from DeviceCreateInfo(Instance&, Flags) with the picked device
CreateInfo(pd, flags) ==
    /\ ~aborted
    /\ info.kind = "none"
    /\ LET i0 == [NoInfo EXCEPT !.kind = "props",
                                !.physicalDevice = pd,
                                !.sType = TRUE,
                                !.flags = BitAnd(flags, BitNot(FlagNoImplicitExtensions))]
           r == AddEnabledExtensionViews(i0, ConstructedState(pd), SplitViews(instance.enable))
       IN /\ info' = r[1]
          /\ state' = r[2]
    /\ last' = [Last("DeviceCreateInfo", "", 0) EXCEPT !.flags = flags]
    /\ UNCHANGED << instance, physical, device, native, global, aborted >>

\* DeviceCreateInfo(VkPhysicalDevice, const VkDeviceCreateInfo&): _info is a
\* copy of the application's structure, whose arrays stay the application's
\* (names = its ppEnabledExtensionNames, queues = its pQueueCreateInfos, each
\* [family, queueCount, offset, app] with app the priorities it points to);
\* _state stays null
CreateInfoFromVk(pd, names, queues) ==
    /\ ~aborted
    /\ info.kind = "none"
    /\ info' = [NoInfo EXCEPT !.kind = "vk",
                              !.physicalDevice = pd,
                              !.sType = TRUE,
                              !.enabledExtensionCount = Len(names),
                              !.ppEnabledExtensionNames = IF names = << >> THEN "null" ELSE "app",
                              !.queueCreateInfoCount = Len(queues),
                              !.pQueueCreateInfos = IF queues = << >> THEN "null" ELSE "app",
                              !.appExtensions = names,
                              !.appQueues = queues]
    /\ last' = [Last("DeviceCreateInfo(VkDeviceCreateInfo)", "", 0) EXCEPT !.count = Len(names)]
    /\ UNCHANGED << instance, physical, state, device, native, global, aborted >>

\* info.addEnabledExtensions({string views})
AddEnabledExtensionsViews(views) ==
    /\ ~aborted
    /\ info.kind /= "none"
    /\ Len(state.extensions) + Len(views) <= MaxExtensions
    /\ LET r == AddEnabledExtensionViews(info, state, views)
       IN /\ info' = r[1]
          /\ state' = r[2]
    /\ last' = [Last("addEnabledExtensions", "", 0) EXCEPT !.count = Len(views)]
    /\ UNCHANGED << instance, physical, device, native, global, aborted >>

\* info.addEnabledExtensions({Extension}) / addEnabledExtensions<E...>()
AddEnabledExtensionsKnown(extensions) ==
    /\ ~aborted
    /\ info.kind /= "none"
    /\ Len(state.extensions) + Len(extensions) <= MaxExtensions
    /\ LET r == AddEnabledExtensionKnown(info, state, extensions)
       IN /\ info' = r[1]
          /\ state' = r[2]
    /\ last' = [Last("addEnabledExtensions", "", 0) EXCEPT !.count = Len(extensions)]
    /\ UNCHANGED << instance, physical, device, native, global, aborted >>

\* addQueues(const VkDeviceQueueCreateInfo&): the new << _info, _state >>
AddQueueInfo(i, st, q) ==
    LET st2 == [Emplaced(st) EXCEPT !.queues = Append(@, q)]
    IN << [i EXCEPT !.pQueueCreateInfos = "state",
                    !.queueCreateInfoCount = Len(st2.queues)],
          st2 >>

\* Mutant: the priorities are copied to the start of the storage
CopyPrioritiesToStart(storage, next, priorities) ==
    [k \in 1..QueuePrioritiesSize |->
        IF k <= Len(priorities) THEN priorities[k] ELSE storage[k]]

\* Utility::copy(priorities, queuePriorities.suffix(next).prefix(size))
CopyPriorities(storage, next, priorities) ==
    [k \in 1..QueuePrioritiesSize |->
        IF k > next /\ k <= next + Len(priorities) THEN priorities[k - next] ELSE storage[k]]

\* Mutant: the precondition of addQueues() is not checked
NeverFails(priorities) == FALSE

\* Whether CORRADE_ASSERT(!priorities.empty(), ...) fails
FailsNoPriorities(priorities) == priorities = << >>

\* addQueues(UnsignedInt family, ArrayView<const Float> priorities)
AddQueues(family, priorities) ==
    /\ ~aborted
    /\ info.kind /= "none"
    /\ Len(state.queues) < MaxQueues
    /\ IF FailsNoPriorities(priorities)
       THEN \* CORRADE_ASSERT: prints and returns *this, or ends the process
            /\ last' = Last("addQueues", "Vk::DeviceCreateInfo::addQueues(): at least one queue priority has to be specified", 0)
            /\ \E graceful \in BOOLEAN : aborted' = ~graceful
            /\ UNCHANGED << info, state >>
       ELSE LET st1 == Emplaced(state)
                q == [family |-> family, queueCount |-> Len(priorities),
                      offset |-> st1.nextQueuePriority, app |-> << >>]
            IN IF st1.nextQueuePriority + Len(priorities) > QueuePrioritiesSize
               THEN \* CORRADE_INTERNAL_ASSERT
                    /\ aborted' = TRUE
                    /\ state' = st1
                    /\ last' = Last("addQueues", "assertion failed", 0)
                    /\ UNCHANGED info
               ELSE LET st2 == [st1 EXCEPT
                                  !.queuePriorities = CopyPriorities(@, st1.nextQueuePriority, priorities),
                                  !.nextQueuePriority = @ + Len(priorities)]
                        r == AddQueueInfo(info, st2, q)
                    IN /\ info' = r[1]
                       /\ state' = r[2]
                       /\ last' = [Last("addQueues", "", 0) EXCEPT !.count = Len(priorities)]
                       /\ UNCHANGED aborted
    /\ UNCHANGED << instance, physical, device, native, global >>

\* --------------------------------------------------------------- Device

\* Device(NoCreateT): _handle{}, _functionPointers{}; _flags, _extensionStatus
\* and _state are value-initialised by their own constructors, _version is not
NoCreateDevice ==
    [ st |-> "alive", handle |-> NullHandle, flags |-> FALSE, version |-> Indeterminate,
      extensionStatus |-> {}, state |-> FALSE, fp |-> NullHandle ]

\* Device(Device&& other): the new object; members left out of the
\* initialiser list (_version, _extensionStatus) are default-initialised
MovedTo(other) ==
    [ st |-> "alive", handle |-> other.handle, flags |-> other.flags,
      version |-> Indeterminate, extensionStatus |-> {},
      state |-> other.state, fp |-> other.fp ]

\* Mutant: the move constructor leaves the handle in the source too
MovedFromKeepingHandle(other) ==
    [other EXCEPT !.fp = NullHandle, !.state = FALSE]

\* Device(Device&& other): what is left of other
MovedFrom(other) ==
    [other EXCEPT !.handle = NullHandle, !.fp = NullHandle, !.state = FALSE]

\* What one lookup in one sorted list of known extensions can do. The code
\* dereferences the iterator std::lower_bound returns without comparing it to
\* end(): past the end it reads whatever follows the list (another list's
\* element, or bytes that match no name), or the read faults.
MemoryPastEnd == KnownExtensions \cup {[index |-> 0, name |-> 0]}

CrashOutcome == [status |-> {}, crash |-> TRUE, oob |-> TRUE]

LookupOutcomes(list, name) ==
    LET found == LowerBound([k \in 1..Len(list) |-> list[k].name], name)
    IN IF found <= Len(list)
       THEN {[status |-> IF list[found].name /= name THEN {} ELSE {list[found].index},
              crash |-> FALSE, oob |-> FALSE]}
       ELSE {CrashOutcome} \cup
            {[status |-> IF r.name /= name THEN {} ELSE {r.index},
              crash |-> FALSE, oob |-> TRUE] : r \in MemoryPastEnd}

Join(a, b) ==
    IF a.crash \/ b.crash THEN CrashOutcome
    ELSE [status |-> a.status \cup b.status, crash |-> FALSE, oob |-> a.oob \/ b.oob]

Combine(A, B) == {Join(a, b) : a \in A, b \in B}

\* Device::initializeExtensions(enabledExtensions) on a zeroed _extensionStatus:
\* every name is looked up in the three lists in turn
RECURSIVE InitializeExtensions(_)
InitializeExtensions(names) ==
    IF names = << >> THEN {[status |-> {}, crash |-> FALSE, oob |-> FALSE]}
    ELSE Combine(
           Combine(Combine(LookupOutcomes(KnownExtensionLists[1], Head(names)),
                           LookupOutcomes(KnownExtensionLists[2], Head(names))),
                   LookupOutcomes(KnownExtensionLists[3], Head(names))),
           InitializeExtensions(Tail(names)))

\* Device::isExtensionEnabled(const Extension&)
IsExtensionEnabled(dev, e) == e.index \in dev.extensionStatus

\* Device::isVersionSupported(Version)
IsVersionSupported(dev, v) == dev.version >= v

\* The lines the Device constructor prints with --magnum-log verbose
VerboseLog(i, st, version) ==
    IF st.present /\ st.verboseLog
    THEN << <<"Device version:", version>> >> \o
         (IF i.enabledExtensionCount /= 0
          THEN << <<"Enabled device extensions:", EnabledExtensionNames(i, st)>> >>
          ELSE << >>)
    ELSE << >>

\* Device(Instance&, const DeviceCreateInfo&)
Construct(d) ==
    /\ ~aborted
    /\ device[d].st = "none"
    /\ info.kind /= "none"
    /\ native.next <= MaxHandles
    /\ IF info.queueCreateInfoCount = 0
       THEN \* CORRADE_ASSERT: prints and returns from the constructor with
            \* _handle{} and _flags set, or ends the process
            /\ last' = Last("Device", "Vk::Device: needs to be created with at least one queue", 0)
            /\ \E graceful \in BOOLEAN :
                 /\ aborted' = ~graceful
                 /\ device' = [device EXCEPT ![d] =
                       IF graceful
                       THEN [NoDevice EXCEPT !.st = "alive", !.flags = TRUE,
                                             !.fp = Indeterminate]
                       ELSE @]
            /\ UNCHANGED native
       ELSE IF ~state.present
       THEN \* info._state->version through a null pointer
            /\ aborted' = TRUE
            /\ last' = Last("Device", "null pointer dereference", 0)
            /\ UNCHANGED << device, native >>
       ELSE LET version == IF state.version /= VersionNone THEN state.version
                           ELSE ApiVersionOf(info.physicalDevice)
                h == native.next
            IN \E created \in BOOLEAN :
                 IF ~created
                 THEN \* MAGNUM_VK_INTERNAL_ASSERT_RESULT(CreateDevice(...))
                      /\ aborted' = TRUE
                      /\ native' = [native EXCEPT !.createCalls = @ + 1]
                      /\ last' = [Last("Device", "assertion failed", 0)
                                    EXCEPT !.log = VerboseLog(info, state, version)]
                      /\ UNCHANGED device
                 ELSE \E o \in InitializeExtensions(EnabledExtensionNames(info, state)) :
                      /\ native' = [native EXCEPT !.createCalls = @ + 1,
                                                  !.next = @ + 1,
                                                  !.live = @ \cup {h}]
                      /\ aborted' = o.crash
                      /\ last' = [Last("Device", "", h)
                                    EXCEPT !.log = VerboseLog(info, state, version),
                                           !.oob = o.oob]
                      /\ device' = [device EXCEPT ![d] =
                            IF o.crash THEN @
                            ELSE [ st |-> "alive", handle |-> h, flags |-> TRUE,
                                   version |-> version, extensionStatus |-> o.status,
                                   state |-> TRUE, fp |-> h ]]
    /\ UNCHANGED << instance, physical, info, state, global >>

\* The handles an application can pass to wrap(): a device that exists (made
\* by a Device constructor earlier and not destroyed), or one the application
\* creates itself with a raw vkCreateDevice call (the next fresh handle)
Wrappable == native.live \cup (IF native.next <= MaxHandles THEN {native.next} ELSE {})

\* Device::wrap(instance, handle, version, enabledExtensions, flags). The
\* function ends in "return out;" with out a local: the language lets the
\* build construct the result in place (elided = TRUE) or move-construct it
\* from out, which is then destroyed with a null handle.
Wrap(d, h, version, names, flags, elided) ==
    /\ ~aborted
    /\ device[d].st = "none"
    /\ h \in Wrappable
    /\ \E o \in InitializeExtensions(names) :
         LET out == [ st |-> "alive", handle |-> h, flags |-> flags, version |-> version,
                      extensionStatus |-> o.status, state |-> TRUE, fp |-> h ]
         IN /\ aborted' = o.crash
            /\ device' = [device EXCEPT ![d] =
                  IF o.crash THEN @ ELSE IF elided THEN out ELSE MovedTo(out)]
            /\ last' = [Last("wrap", "", h) EXCEPT !.oob = o.oob]
    /\ native' = [native EXCEPT !.live = @ \cup {h},
                                !.next = IF h = @ THEN @ + 1 ELSE @]
    /\ UNCHANGED << instance, physical, info, state, global >>

\* Device c{NoCreate}
ConstructNoCreate(d) ==
    /\ ~aborted
    /\ device[d].st = "none"
    /\ device' = [device EXCEPT ![d] = NoCreateDevice]
    /\ last' = Last("Device(NoCreate)", "", 0)
    /\ UNCHANGED << instance, physical, info, state, native, global, aborted >>

\* Device b = std::move(a): Device(Device&& other)
MoveConstruct(to, from) ==
    /\ ~aborted
    /\ to /= from
    /\ device[to].st = "none"
    /\ device[from].st = "alive"
    /\ device' = [device EXCEPT ![to] = MovedTo(device[from]),
                                ![from] = MovedFrom(device[from])]
    /\ last' = Last("Device(Device&&)", "", 0)
    /\ UNCHANGED << instance, physical, info, state, native, global, aborted >>

\* Mutant: operator= swaps the handle only
SwapHandleWith(self, other) == [self EXCEPT !.handle = other.handle]

\* Device::operator=(Device&& other): swaps _handle, _flags, _state and
\* _functionPointers
SwapWith(self, other) ==
    [self EXCEPT !.handle = other.handle, !.flags = other.flags,
                 !.state = other.state, !.fp = other.fp]

MoveAssign(to, from) ==
    /\ ~aborted
    /\ to /= from
    /\ device[to].st = "alive"
    /\ device[from].st = "alive"
    /\ device' = [device EXCEPT ![to] = SwapWith(device[to], device[from]),
                                ![from] = SwapWith(device[from], device[to])]
    /\ last' = Last("operator=", "", 0)
    /\ UNCHANGED << instance, physical, info, state, native, global, aborted >>

\* Mutant: release() returns the handle but keeps it
ReleasedKeepingHandle(dev) == dev

\* Device::release(): what is left of the Device
Released(dev) == [dev EXCEPT !.handle = NullHandle]

Release(d) ==
    /\ ~aborted
    /\ device[d].st = "alive"
    /\ device' = [device EXCEPT ![d] = Released(device[d])]
    /\ last' = Last("release", "", device[d].handle)
    /\ UNCHANGED << instance, physical, info, state, native, global, aborted >>

\* Mutant: the destructor does not look at the handle flags
DestroysAnyHandle(dev) == dev.handle /= NullHandle

\* Mutant: the destructor does not look at the handle
DestroysWhenFlagged(dev) == dev.flags

\* The condition under which ~Device() calls DestroyDevice
DestroysOnDestruction(dev) == dev.handle /= NullHandle /\ dev.flags

\* Device::~Device(); the call goes through the object's own function
\* pointers, which have to be loaded for it to return
Destroy(d) ==
    /\ ~aborted
    /\ device[d].st = "alive"
    /\ device' = [device EXCEPT ![d] = DestroyedDevice]
    /\ IF DestroysOnDestruction(device[d])
       THEN IF device[d].fp \in Handles
            THEN /\ native' = [native EXCEPT
                       !.destroyed[device[d].handle] = @ + 1,
                       !.live = @ \ {device[d].handle}]
                 /\ last' = [Last("~Device", "", 0) EXCEPT !.destroyed = device[d].handle,
                                                           !.dev = device[d]]
                 /\ UNCHANGED aborted
            ELSE /\ aborted' = TRUE
                 /\ last' = [Last("~Device", "call through a null function pointer", 0)
                                EXCEPT !.dev = device[d]]
                 /\ UNCHANGED native
       ELSE /\ last' = [Last("~Device", "", 0) EXCEPT !.dev = device[d]]
            /\ UNCHANGED << native, aborted >>
    /\ UNCHANGED << instance, physical, info, state, global >>

\* Two of the entries of FlextVkDevice
DeviceFunctions == {"DestroyDevice", "CreateBuffer"}

\* Mutant: only vkDestroyDevice is copied
PopulatedDestroyDevice(table, dev) == [table EXCEPT !["DestroyDevice"] = dev.fp]

\* flextVkDevice = _functionPointers: the whole structure is assigned
Populated(table, dev) == [f \in DOMAIN table |-> dev.fp]

\* Device::populateGlobalFunctionPointers()
PopulateGlobalFunctionPointers(d) ==
    /\ ~aborted
    /\ device[d].st = "alive"
    /\ global' = Populated(global, device[d])
    /\ last' = Last("populateGlobalFunctionPointers", "", global["DestroyDevice"])
    /\ UNCHANGED << instance, physical, info, state, device, native, aborted >>

\* ------------------------------------------------------ DeviceProperties
\* physical.devices is what the driver enumerates, in its order: each a record
\*   [handle, type, name, families], families a sequence of [flags, count];
\* the device's apiVersion is ApiVersionOf(handle).
\* physical.objects are the DeviceProperties of the array enumerateDevices()
\* returned; physical.picked is the Optional tryPickDevice() returned;
\* physical.family is the Optional the last tryPickQueueFamily() returned (the
\* index the last pickQueueFamily() returned); physical.text is the DeviceType
\* or the name and physical.ret the number the last other DeviceProperties
\* member function returned.
\* A driver without physical devices, nothing enumerated yet
NoPhysical ==
    [devices |-> << >>, objects |-> << >>, picked |-> << >>, family |-> << >>,
     text |-> "", ret |-> 0]

DeviceTypes == {"Other", "IntegratedGpu", "DiscreteGpu", "VirtualGpu", "Cpu"}

\* VkPhysicalDeviceProperties of a physical device
CoreProperties(dev) ==
    [apiVersion |-> ApiVersionOf(dev.handle), driverVersion |-> 1,
     deviceType |-> dev.type, deviceName |-> dev.name]

\* The physical device behind a handle
NativeDevice(h) ==
    CHOOSE dev \in Range(physical.devices) : dev.handle = h

\* DeviceProperties(Instance&, VkPhysicalDevice): _state is null. The members
\* of State are kept at their value-initialised contents while it is null.
\* queries = the native queries issued for this object, in order: the entry
\* point and what it was asked for ("properties", "count", "data").
NewProperties(h) ==
    [handle |-> h, state |-> FALSE, sType |-> FALSE, properties |-> << >>,
     queueFamilyProperties |-> << >>, queries |-> << >>]

\* InstanceState::InstanceState(): getPhysicalDevicePropertiesImplementation
PropertiesImplementation(inst) ==
    IF inst.version >= Vk11 THEN "GetPhysicalDeviceProperties2"
    ELSE IF inst.properties2 THEN "GetPhysicalDeviceProperties2KHR"
    ELSE "GetPhysicalDeviceProperties"

\* Mutant: the extension takes precedence over the version
QueueFamilyPropertiesImplementationKHRFirst(inst) ==
    IF inst.properties2 THEN "GetPhysicalDeviceQueueFamilyProperties2KHR"
    ELSE IF inst.version >= Vk11 THEN "GetPhysicalDeviceQueueFamilyProperties2"
    ELSE "GetPhysicalDeviceQueueFamilyProperties"

\* InstanceState::InstanceState(): getPhysicalDeviceQueueFamilyProperties
QueueFamilyPropertiesImplementation(inst) ==
    IF inst.version >= Vk11 THEN "GetPhysicalDeviceQueueFamilyProperties2"
    ELSE IF inst.properties2 THEN "GetPhysicalDeviceQueueFamilyProperties2KHR"
    ELSE "GetPhysicalDeviceQueueFamilyProperties"

\* getPropertiesImplementationDefault / KHR / Vulkan11: the structure after
\* the call. The 1.0 entry point is given &properties.properties only; the
\* other two get the whole structure, whose pNext the caller left null.
GetProperties(fn, h) ==
    [sType |-> "PHYSICAL_DEVICE_PROPERTIES_2", pNext |-> "null",
     properties |-> CoreProperties(NativeDevice(h))]

\* Mutant: properties() queries the driver on every call
PropertiesNotFetchedEver(o) == TRUE

\* properties(): if(!_state->properties.sType), after _state was emplaced
PropertiesNotFetched(o) == ~o.state \/ ~o.sType

\* DeviceProperties::properties(): the object afterwards
WithProperties(o) ==
    LET fn == PropertiesImplementation(instance)
    IN IF PropertiesNotFetched(o)
       THEN [o EXCEPT !.state = TRUE, !.sType = TRUE,
                      !.properties = GetProperties(fn, o.handle),
                      !.queries = Append(@, [fn |-> fn, arg |-> "properties"])]
       ELSE [o EXCEPT !.state = TRUE]

PropertyGetters == {"properties", "apiVersion", "driverVersion", "type", "name"}

\* The number apiVersion() and driverVersion() return of the cached
\* structure; properties() returns a reference to the structure itself
ProjectedNumber(getter, properties) ==
    CASE getter = "apiVersion" -> properties.properties.apiVersion
      [] getter = "driverVersion" -> properties.properties.driverVersion
      [] OTHER -> 0

\* The DeviceType type() and the string name() return of the cached structure
ProjectedText(getter, properties) ==
    CASE getter = "type" -> properties.properties.deviceType
      [] getter = "name" -> properties.properties.deviceName
      [] OTHER -> ""

\* devices[i].properties() / apiVersion() / driverVersion() / type() / name()
Properties(i, getter) ==
    /\ ~aborted
    /\ i \in 1..Len(physical.objects)
    /\ last' = [Last(getter, "", 0) EXCEPT
                   !.object = i,
                   !.queries = IF PropertiesNotFetched(physical.objects[i]) THEN 1 ELSE 0]
    /\ LET o == WithProperties(physical.objects[i])
       IN physical' = [physical EXCEPT !.objects[i] = o,
                                       !.family = << >>,
                                       !.text = ProjectedText(getter, o.properties),
                                       !.ret = ProjectedNumber(getter, o.properties)]
    /\ UNCHANGED << instance, info, state, device, native, global, aborted >>

\* ---- queue families. Memory is modelled in units of four bytes, each unit a
\* record [tag, v]: the member that was last stored there and the 32-bit value
\* stored; the layouts are those of a build with 8-byte pointers.
Unit(tag, v) == [tag |-> tag, v |-> v]

\* Memory nobody has written yet
Uninitialized == Unit("indeterminate", 0)

\* VK_STRUCTURE_TYPE_QUEUE_FAMILY_PROPERTIES_2
QueueFamilyProperties2 == 1000059005

\* VK_QUEUE_GRAPHICS_BIT, VK_QUEUE_COMPUTE_BIT, VK_QUEUE_TRANSFER_BIT,
\* VK_QUEUE_SPARSE_BINDING_BIT, VK_QUEUE_PROTECTED_BIT
QueueFlagGraphics == 1
QueueFlagCompute == 2
QueueFlagTransfer == 4
QueueFlagSparseBinding == 8
QueueFlagProtected == 16

\* a & b of two unsigned values
RECURSIVE AndBits(_, _)
AndBits(a, b) ==
    IF a = 0 \/ b = 0 THEN 0
    ELSE (a % 2) * (b % 2) + 2 * AndBits(a \div 2, b \div 2)

\* sizeof(VkQueueFamilyProperties) / 4: queueFlags, queueCount,
\* timestampValidBits, minImageTransferGranularity (width, height, depth)
SrcUnits == 6

\* sizeof(VkQueueFamilyProperties2) / 4: sType, padding, pNext (two units),
\* then the six units of queueFamilyProperties
DstUnits == 10

\* Where queueFamilyProperties starts in VkQueueFamilyProperties2
HeaderUnits == 4

\* One VkQueueFamilyProperties as the driver writes it
FamilyImage(f) ==
    << Unit("queueFlags", f.flags), Unit("queueCount", f.count),
       Unit("timestampValidBits", 64), Unit("width", 1), Unit("height", 1),
       Unit("depth", 1) >>

\* Units first .. first + Len(image) - 1 of the buffer replaced by image
Stored(buffer, first, image) ==
    [w \in DOMAIN buffer |->
        IF w >= first /\ w < first + Len(image) THEN image[w - first + 1] ELSE buffer[w]]

\* Units first .. first + n - 1 of the buffer
Loaded(buffer, first, n) == [k \in 1..n |-> buffer[first + k - 1]]

\* Copying n units from src to dst one unit after the other, lowest first
RECURSIVE CopiedForward(_, _, _, _)
CopiedForward(buffer, dst, src, n) ==
    IF n = 0 THEN buffer
    ELSE CopiedForward([buffer EXCEPT ![dst] = buffer[src]], dst + 1, src + 1, n - 1)

\* How a build can carry out the three statements of the loop body for
\* element i: "written" = in program order, the structure copied as a whole;
\* "forward" = in program order, the overlapping structure copied unit by
\* unit; "hoisted" = src[i - 1] loaded before the stores to sType and pNext
\* (the two are accessed through unrelated types)
ConversionOrders == {"written", "forward", "hoisted"}

\* dst[i - 1].sType = ...; dst[i - 1].pNext = nullptr;
\* dst[i - 1].queueFamilyProperties = src[i - 1]
SparsenOne(buffer, i, order) ==
    LET dst == DstUnits * (i - 1) + 1
        src == SrcUnits * (i - 1) + 1
        loaded == Loaded(buffer, src, SrcUnits)
        b1 == [buffer EXCEPT ![dst] = Unit("sType", QueueFamilyProperties2)]
        b2 == [b1 EXCEPT ![dst + 2] = Unit("pNext", 0),
                         ![dst + 3] = Unit("pNext", 0)]
    IN CASE order = "hoisted" -> Stored(b2, dst + HeaderUnits, loaded)
         [] order = "written" -> Stored(b2, dst + HeaderUnits, Loaded(b2, src, SrcUnits))
         [] order = "forward" -> CopiedForward(b2, dst + HeaderUnits, src, SrcUnits)

\* Mutant: the element is copied out before the header is stored
SparsenOneCopyFirst(buffer, i, order) ==
    LET dst == DstUnits * (i - 1) + 1
        src == SrcUnits * (i - 1) + 1
        loaded == Loaded(buffer, src, SrcUnits)
        b0 == Stored(buffer, dst + HeaderUnits, loaded)
        b1 == [b0 EXCEPT ![dst] = Unit("sType", QueueFamilyProperties2)]
    IN [b1 EXCEPT ![dst + 2] = Unit("pNext", 0), ![dst + 3] = Unit("pNext", 0)]

\* getQueueFamilyPropertiesImplementationDefault(): for(i = count; i != 0; --i)
RECURSIVE Sparsen(_, _, _)
Sparsen(buffer, i, order) ==
    IF i = 0 THEN buffer ELSE Sparsen(SparsenOne(buffer, i, order), i - 1, order)

\* Array<VkQueueFamilyProperties2>{NoInit, count}
NoInitFamilies(count) == [w \in 1..(DstUnits * count) |-> Uninitialized]

\* The driver writing VkQueueFamilyProperties for all families to the start
RECURSIVE WithFamilies(_, _, _)
WithFamilies(buffer, families, i) ==
    IF i = 0 THEN buffer
    ELSE WithFamilies(Stored(buffer, SrcUnits * (i - 1) + 1, FamilyImage(families[i])),
                      families, i - 1)

\* The driver writing the queueFamilyProperties member of every
\* VkQueueFamilyProperties2; it does not write sType and pNext
RECURSIVE WithFamilies2(_, _, _)
WithFamilies2(buffer, families, i) ==
    IF i = 0 THEN buffer
    ELSE WithFamilies2(Stored(buffer, DstUnits * (i - 1) + 1 + HeaderUnits,
                              FamilyImage(families[i])),
                       families, i - 1)

\* The array after the data query through entry point fn
GetQueueFamilyProperties(fn, families, order) ==
    LET count == Len(families)
    IN IF fn = "GetPhysicalDeviceQueueFamilyProperties"
       THEN Sparsen(WithFamilies(NoInitFamilies(count), families, count), count, order)
       ELSE WithFamilies2(NoInitFamilies(count), families, count)

\* The array as VkQueueFamilyProperties2 elements
FamilyArray(buffer) ==
    [i \in 1..(Len(buffer) \div DstUnits) |->
        LET at == DstUnits * (i - 1)
        IN [sType |-> buffer[at + 1], pNext |-> << buffer[at + 3], buffer[at + 4] >>,
            queueFlags |-> buffer[at + 5], queueCount |-> buffer[at + 6],
            timestampValidBits |-> buffer[at + 7],
            minImageTransferGranularity |->
                << buffer[at + 8], buffer[at + 9], buffer[at + 10] >>]]

\* queueFamilyProperties(): if(_state->queueFamilyProperties.empty())
FamiliesNotFetched(o) == o.queueFamilyProperties = << >>

\* Whether the driver survives being handed VkQueueFamilyProperties2 elements
\* whose sType and pNext were never set: the 1.0 entry point does not read
\* them
ReadsUninitializedHeader(fn) == fn /= "GetPhysicalDeviceQueueFamilyProperties"

\* DeviceProperties::queueFamilyProperties(): the object afterwards
WithQueueFamilyProperties(o, order) ==
    LET fn == QueueFamilyPropertiesImplementation(instance)
        families == NativeDevice(o.handle).families
    IN IF FamiliesNotFetched(o)
       THEN [o EXCEPT !.state = TRUE,
                      !.queueFamilyProperties =
                          FamilyArray(GetQueueFamilyProperties(fn, families, order)),
                      !.queries = @ \o << [fn |-> fn, arg |-> "count"],
                                        [fn |-> fn, arg |-> "data"] >>]
       ELSE [o EXCEPT !.state = TRUE]

\* What queueFamilyProperties() can do to the object: after the first call
\* the array is cached. The 1.1 and KHR entry points are handed elements whose
\* sType and pNext nobody set, which a driver reads and may follow (crash).
FamilyOutcomes(o) ==
    LET fn == QueueFamilyPropertiesImplementation(instance)
        count == Len(NativeDevice(o.handle).families)
    IN IF ~FamiliesNotFetched(o)
       THEN {[object |-> WithQueueFamilyProperties(o, "written"), crash |-> FALSE]}
       ELSE IF ReadsUninitializedHeader(fn)
       THEN {[object |-> WithQueueFamilyProperties(o, "written"), crash |-> c] :
                c \in IF count > 0 THEN BOOLEAN ELSE {FALSE}}
       ELSE {[object |-> WithQueueFamilyProperties(o, order), crash |-> FALSE] :
                order \in ConversionOrders}

\* QueueFlag(properties[i].queueFamilyProperties.queueFlags): the value of
\* the unit at that place, whatever was stored there
AsFlags(unit) == unit.v

\* properties[i].queueFamilyProperties.queueCount
AsCount(unit) == unit.v

\* The record of a call on devices[i]
FamilyCall(op, i, error) ==
    [Last(op, error, 0) EXCEPT
        !.object = i,
        !.queries = IF FamiliesNotFetched(physical.objects[i]) THEN 2 ELSE 0]

\* Whether devices[i] can be called: the model stops issuing queries at
\* MaxQueries per object
Callable(i) ==
    /\ ~aborted
    /\ i \in 1..Len(physical.objects)
    /\ Len(physical.objects[i].queries) + 2 <= MaxQueries

\* devices[i].queueFamilyCount(): queueFamilyProperties().size()
QueueFamilyCount(i) ==
    /\ Callable(i)
    /\ \E out \in FamilyOutcomes(physical.objects[i]) :
         /\ last' = FamilyCall("queueFamilyCount", i, "")
         /\ physical' = [physical EXCEPT
               !.objects[i] = out.object,
               !.family = << >>, !.text = "",
               !.ret = IF out.crash THEN 0 ELSE Len(out.object.queueFamilyProperties)]
         /\ aborted' = out.crash
    /\ UNCHANGED << instance, info, state, device, native, global >>

OutOfRange(function, id, size) ==
    "Vk::DeviceProperties::" \o function \o "(): index " \o ToString(id)
        \o " out of range for " \o ToString(size) \o " entries"

\* devices[i].queueFamilySize(id)
QueueFamilySize(i, id) ==
    /\ Callable(i)
    /\ \E out \in FamilyOutcomes(physical.objects[i]), graceful \in BOOLEAN :
         LET properties == out.object.queueFamilyProperties
             failed == ~out.crash /\ ~(id < Len(properties))
         IN /\ last' = FamilyCall("queueFamilySize", i,
                          IF failed THEN OutOfRange("queueFamilySize", id, Len(properties))
                          ELSE "")
            /\ physical' = [physical EXCEPT
                  !.objects[i] = out.object,
                  !.family = << >>, !.text = "",
                  !.ret = IF out.crash \/ failed THEN 0
                          ELSE AsCount(properties[id + 1].queueCount)]
            /\ aborted' = (out.crash \/ (failed /\ ~graceful))
            /\ (~failed => graceful)
    /\ UNCHANGED << instance, info, state, device, native, global >>

\* devices[i].queueFamilyFlags(id)
QueueFamilyFlags(i, id) ==
    /\ Callable(i)
    /\ \E out \in FamilyOutcomes(physical.objects[i]), graceful \in BOOLEAN :
         LET properties == out.object.queueFamilyProperties
             failed == ~out.crash /\ ~(id < Len(properties))
         IN /\ last' = FamilyCall("queueFamilyFlags", i,
                          IF failed THEN OutOfRange("flags", id, Len(properties))
                          ELSE "")
            /\ physical' = [physical EXCEPT
                  !.objects[i] = out.object,
                  !.family = << >>, !.text = "",
                  !.ret = IF out.crash \/ failed THEN 0
                          ELSE AsFlags(properties[id + 1].queueFlags)]
            /\ aborted' = (out.crash \/ (failed /\ ~graceful))
            /\ (~failed => graceful)
    /\ UNCHANGED << instance, info, state, device, native, global >>

\* The flags enumSetDebugOutput() goes through, in its order
QueueFlagNames ==
    << [name |-> "Graphics", bit |-> QueueFlagGraphics],
       [name |-> "Compute", bit |-> QueueFlagCompute],
       [name |-> "Transfer", bit |-> QueueFlagTransfer],
       [name |-> "SparseBinding", bit |-> QueueFlagSparseBinding],
       [name |-> "Protected", bit |-> QueueFlagProtected] >>

Joined(sofar, text) == IF sofar = "" THEN text ELSE sofar \o "|" \o text

\* The known flags by name, then what is left as one number
RECURSIVE FlagsTextFrom(_, _, _)
FlagsTextFrom(flags, k, sofar) ==
    IF k > Len(QueueFlagNames)
    THEN IF flags = 0 THEN sofar
         ELSE Joined(sofar, "Vk::QueueFlag(" \o ToString(flags) \o ")")
    ELSE IF AndBits(flags, QueueFlagNames[k].bit) /= 0
    THEN FlagsTextFrom(flags - QueueFlagNames[k].bit, k + 1,
                       Joined(sofar, "Vk::QueueFlag::" \o QueueFlagNames[k].name))
    ELSE FlagsTextFrom(flags, k + 1, sofar)

\* operator<<(Debug&, QueueFlags)
FlagsText(flags) == IF flags = 0 THEN "Vk::QueueFlags{}" ELSE FlagsTextFrom(flags, 1, "")

\* Mutant: the loop takes the first family that has any of the flags
HasSomeFlags(familyFlags, flags) == flags = 0 \/ AndBits(familyFlags, flags) /= 0

\* QueueFlag(...) >= flags: the family has all of the flags
HasAllFlags(familyFlags, flags) == AndBits(familyFlags, flags) = flags

\* tryPickQueueFamily(): for(i = 0; i != properties.size(); ++i) ..., the
\* Optional as a sequence of at most one index
RECURSIVE FirstFamilyFrom(_, _, _)
FirstFamilyFrom(properties, flags, i) ==
    IF i = Len(properties) THEN << >>
    ELSE IF HasAllFlags(AsFlags(properties[i + 1].queueFlags), flags) THEN << i >>
    ELSE FirstFamilyFrom(properties, flags, i + 1)

NoFamilyFound(flags, size) ==
    "Vk::DeviceProperties::tryPickQueueFamily(): no " \o FlagsText(flags)
        \o " found among " \o ToString(size) \o " queue families"

\* devices[i].tryPickQueueFamily(flags)
TryPickQueueFamily(i, flags) ==
    /\ Callable(i)
    /\ \E out \in FamilyOutcomes(physical.objects[i]) :
         LET properties == out.object.queueFamilyProperties
             id == FirstFamilyFrom(properties, flags, 0)
         IN /\ last' = FamilyCall("tryPickQueueFamily", i,
                          IF ~out.crash /\ id = << >>
                          THEN NoFamilyFound(flags, Len(properties)) ELSE "")
            /\ physical' = [physical EXCEPT
                  !.objects[i] = out.object,
                  !.family = IF out.crash THEN << >> ELSE id,
                  !.text = "", !.ret = 0]
            /\ aborted' = out.crash
    /\ UNCHANGED << instance, info, state, device, native, global >>

\* devices[i].pickQueueFamily(flags)
PickQueueFamily(i, flags) ==
    /\ Callable(i)
    /\ \E out \in FamilyOutcomes(physical.objects[i]) :
         LET properties == out.object.queueFamilyProperties
             id == FirstFamilyFrom(properties, flags, 0)
             exits == ~out.crash /\ id = << >>
         IN /\ last' = [FamilyCall("pickQueueFamily", i,
                            IF exits THEN NoFamilyFound(flags, Len(properties)) ELSE "")
                        EXCEPT !.exit = IF exits THEN "1" ELSE ""]
            /\ physical' = [physical EXCEPT
                  !.objects[i] = out.object,
                  !.family = IF out.crash \/ exits THEN << >> ELSE id,
                  !.text = "", !.ret = 0]
            /\ aborted' = (out.crash \/ exits)
    /\ UNCHANGED << instance, info, state, device, native, global >>

\* sizeof(DeviceProperties) in pointers: _instance, _handle, _state
ObjectWords == 3

\* The words of one DeviceProperties{instance, handle}
ObjectImage(h) == << "instance", h, "null" >>

\* enumerateDevices(): the loop that constructs DeviceProperties number i
\* down to number 1 in the buffer whose first count words hold the handles
RECURSIVE ConstructBackwards(_, _)
ConstructBackwards(buffer, i) ==
    IF i = 0 THEN buffer
    ELSE LET h == buffer[i]
             image == ObjectImage(h)
         IN ConstructBackwards(
                [w \in DOMAIN buffer |->
                    IF w > ObjectWords * (i - 1) /\ w <= ObjectWords * i
                    THEN image[w - ObjectWords * (i - 1)] ELSE buffer[w]],
                i - 1)

\* Mutant: the objects are constructed from the first to the last
RECURSIVE ConstructForwardsFrom(_, _, _)
ConstructForwardsFrom(buffer, i, count) ==
    IF i > count THEN buffer
    ELSE LET h == buffer[i]
             image == ObjectImage(h)
         IN ConstructForwardsFrom(
                [w \in DOMAIN buffer |->
                    IF w > ObjectWords * (i - 1) /\ w <= ObjectWords * i
                    THEN image[w - ObjectWords * (i - 1)] ELSE buffer[w]],
                i + 1, count)

ConstructForwards(buffer, count) == ConstructForwardsFrom(buffer, 1, count)

\* Array<DeviceProperties>{NoInit, count} after EnumeratePhysicalDevices wrote
\* the handles to its start, then the construction loop
ConstructInPlace(buffer, count) == ConstructBackwards(buffer, count)

\* enumerateDevices(instance): the returned array, read back from the buffer
EnumeratedDevices ==
    LET count == Len(physical.devices)
        raw == [w \in 1..(ObjectWords * count) |->
                   IF w <= count THEN physical.devices[w].handle ELSE Indeterminate]
        out == ConstructInPlace(raw, count)
    IN [i \in 1..count |-> NewProperties(out[ObjectWords * (i - 1) + 2])]

\* devices = enumerateDevices(instance)
EnumerateDevices ==
    /\ ~aborted
    /\ physical.objects = << >>
    /\ physical' = [physical EXCEPT !.objects = EnumeratedDevices, !.family = << >>,
                                    !.text = "", !.ret = 0]
    /\ last' = [Last("enumerateDevices", "", 0) EXCEPT !.count = Len(physical.devices)]
    /\ UNCHANGED << instance, info, state, device, native, global, aborted >>

\* --magnum-device: the value of the option is a sequence of characters
Digits == << "0", "1", "2", "3", "4", "5", "6", "7", "8", "9" >>

IsDigit(c) == \E k \in 1..Len(Digits) : Digits[k] = c

DigitValue(c) == (CHOOSE k \in 1..Len(Digits) : Digits[k] = c) - 1

\* The characters as one string
RECURSIVE Text(_)
Text(chars) == IF chars = << >> THEN "" ELSE Head(chars) \o Text(Tail(chars))

\* args.value<UnsignedInt>("device"): the digits the value starts with are
\* read as a decimal number and what follows them is left alone. The values
\* of DeviceOptionInputs have at most three digits, far from 32 bits.
RECURSIVE ParsedFrom(_, _)
ParsedFrom(chars, sofar) ==
    IF chars = << >> \/ ~IsDigit(Head(chars)) THEN sofar
    ELSE ParsedFrom(Tail(chars), sofar * 10 + DigitValue(Head(chars)))

ParsedUnsignedInt(chars) == ParsedFrom(chars, 0)

\* tryPickDevice(): the chain of comparisons of the value with the type names
\* ("" = none of them)
PickedType(chars) ==
    IF chars = << "i", "n", "t", "e", "g", "r", "a", "t", "e", "d" >> THEN "IntegratedGpu"
    ELSE IF chars = << "d", "i", "s", "c", "r", "e", "t", "e" >> THEN "DiscreteGpu"
    ELSE IF chars = << "v", "i", "r", "t", "u", "a", "l" >> THEN "VirtualGpu"
    ELSE IF chars = << "c", "p", "u" >> THEN "Cpu"
    ELSE ""

\* Mutant: the scan stops at the first device whatever its type
TypeMatchesAny(o, type) == TRUE

\* device.type() == type, on an object whose properties were fetched
TypeMatches(o, type) == o.properties.properties.deviceType = type

\* for(DeviceProperties& device: devices) if(device.type() == type): the
\* objects after the loop and the number of the one it stopped at (0 = none)
RECURSIVE Scanned(_, _, _)
Scanned(devices, type, i) ==
    IF i > Len(devices) THEN [devices |-> devices, found |-> 0]
    ELSE LET asked == [devices EXCEPT ![i] = WithProperties(@)]
         IN IF TypeMatches(asked[i], type)
            THEN [devices |-> asked, found |-> i]
            ELSE Scanned(asked, type, i + 1)

\* The native queries issued for the objects of an array
RECURSIVE QueriesOf(_)
QueriesOf(devices) ==
    IF devices = << >> THEN 0
    ELSE Len(Head(devices).queries) + QueriesOf(Tail(devices))

\* tryPickDevice(instance): [picked, error, queries], picked the Optional
\* as a sequence of no or one DeviceProperties, error what is printed
TryPicked ==
    LET value == instance.device
        devices == EnumeratedDevices
        size == Len(devices)
    IN IF value = << >>
       THEN IF size = 0
            THEN [picked |-> << >>, queries |-> 0,
                  error |-> "Vk::tryPickPhysicalDevice(): no Vulkan devices found"]
            ELSE [picked |-> << devices[1] >>, queries |-> 0, error |-> ""]
       ELSE IF IsDigit(value[1])
       THEN LET id == ParsedUnsignedInt(value)
            IN IF id >= size
               THEN [picked |-> << >>, queries |-> 0,
                     error |-> "Vk::tryPickPhysicalDevice(): index " \o ToString(id)
                               \o " out of bounds for " \o ToString(size)
                               \o " Vulkan devices"]
               ELSE [picked |-> << devices[id + 1] >>, queries |-> 0, error |-> ""]
       ELSE IF PickedType(value) = ""
       THEN [picked |-> << >>, queries |-> 0,
             error |-> "Vk::tryPickPhysicalDevice(): unknown Vulkan device type "
                       \o Text(value)]
       ELSE LET scan == Scanned(devices, PickedType(value), 1)
            IN IF scan.found /= 0
               THEN [picked |-> << scan.devices[scan.found] >>,
                     queries |-> QueriesOf(scan.devices), error |-> ""]
               ELSE [picked |-> << >>, queries |-> QueriesOf(scan.devices),
                     error |-> "Vk::tryPickPhysicalDevice(): no Vk::DeviceType::"
                               \o PickedType(value) \o " found among "
                               \o ToString(size) \o " Vulkan devices"]

\* Containers::Optional<DeviceProperties> device = tryPickDevice(instance)
TryPickDevice ==
    /\ ~aborted
    /\ last' = [Last("tryPickDevice", TryPicked.error, 0) EXCEPT
                    !.count = Len(physical.devices), !.queries = TryPicked.queries]
    /\ physical' = [physical EXCEPT !.picked = TryPicked.picked, !.family = << >>,
                                    !.text = "", !.ret = 0]
    /\ UNCHANGED << instance, info, state, device, native, global, aborted >>

\* DeviceProperties device = pickDevice(instance): std::exit(1) if
\* tryPickDevice() returned nothing
PickDevice ==
    /\ ~aborted
    /\ last' = [Last("pickDevice", TryPicked.error, 0) EXCEPT
                    !.count = Len(physical.devices), !.queries = TryPicked.queries,
                    !.exit = IF TryPicked.picked = << >> THEN "1" ELSE ""]
    /\ physical' = [physical EXCEPT !.picked = TryPicked.picked, !.family = << >>,
                                    !.text = "", !.ret = 0]
    /\ aborted' = (TryPicked.picked = << >>)
    /\ UNCHANGED << instance, info, state, device, native, global >>

\* ---------------------------------------------------------- specifications
\* Inputs of the operations
FlagInputs == {{}, FlagNoImplicitExtensions, FlagNoImplicitExtensions \cup {0}}
\* Views of strings that are not global: addEnabledExtensions() copies them
LocalViewInputs ==
    SeqUpTo([name : Names, global : {FALSE}, nullTerminated : {FALSE}], MaxArgs)
\* Views of two names, of every kind: string literals (global and
\* null-terminated), slices of literals, local strings, slices of local ones
ViewInputs == SeqUpTo([name : {1, 4}, global : BOOLEAN, nullTerminated : BOOLEAN], MaxArgs)
KnownInputs == SeqUpTo(KnownExtensions, MaxArgs)
\* Lists of priorities 1.0: short ones, and two that together overflow the
\* storage of QueuePrioritiesSize floats
PriorityInputs ==
    SeqUpTo({1}, MaxArgs) \cup {[k \in 1..16 |-> 1], [k \in 1..17 |-> 1]}
NameLists == SeqUpTo(Names, MaxArgs)
\* What wrap() is given: no extension or VK_EXT_debug_marker, Vulkan 1.0 or 1.1
WrapNames == {<< >>, << 1 >>}
WrapVersions == {Vk10, Vk11}

InitRest ==
    /\ info = NoInfo
    /\ state = EmptyState(FALSE)
    /\ device = [d \in Devices |-> NoDevice]
    /\ native = [next |-> 1, createCalls |-> 0, live |-> {},
                 destroyed |-> [h \in Handles |-> 0]]
    /\ global = [f \in DeviceFunctions |-> NullHandle]
    /\ last = Last("", "", 0)
    /\ aborted = FALSE

\* An instance started without command-line options
Init ==
    /\ instance = [version |-> Vk12, disable |-> << >>, enable |-> << >>,
                   verbose |-> FALSE, properties2 |-> FALSE, device |-> << >>]
    /\ physical = NoPhysical
    /\ InitRest

\* An instance of any version (--magnum-vulkan-version), with or without
\* --magnum-log verbose
InitVersions ==
    /\ instance \in [version : Versions, disable : {<< >>}, enable : {<< >>},
                     verbose : BOOLEAN, properties2 : {FALSE}, device : {<< >>}]
    /\ physical = NoPhysical
    /\ InitRest

\* Ownership of device handles: Device objects made from a DeviceCreateInfo
\* with one queue or wrapped around a handle, moved, released and destroyed
Next ==
    \/ CreateInfo(1, {})
    \/ state.queues = << >> /\ AddQueues(0, << 1 >>)
    \/ \E d \in Devices : Construct(d)
    \/ \E d \in Devices, h \in Handles, flags \in BOOLEAN, elided \in BOOLEAN :
             Wrap(d, h, Vk10, << >>, flags, elided)
    \/ \E to \in Devices, from \in Devices : MoveConstruct(to, from)
    \/ \E to \in Devices, from \in Devices : MoveAssign(to, from)
    \/ \E d \in Devices : Release(d)
    \/ \E d \in Devices : Destroy(d)

Spec == Init /\ [][Next]_vars

\* Who owns a native device: Devices are constructed, wrapped (the result
\* constructed in place), moved, released and destroyed
NextOwnership ==
    \/ CreateInfo(1, {})
    \/ state.queues = << >> /\ AddQueues(0, << 1 >>)
    \/ \E d \in Devices : Construct(d)
    \/ \E d \in Devices, h \in Handles, flags \in BOOLEAN :
             Wrap(d, h, Vk10, << >>, flags, TRUE)
    \/ \E to \in Devices, from \in Devices : MoveConstruct(to, from)
    \/ \E to \in Devices, from \in Devices : MoveAssign(to, from)
    \/ \E d \in Devices : Release(d)
    \/ \E d \in Devices : Destroy(d)

SpecOwnership == Init /\ [][NextOwnership]_vars

\* What a constructed and a wrapped Device report: versions and extensions
NextWrap ==
    \/ CreateInfo(1, {})
    \/ state.queues = << >> /\ AddQueues(0, << 1 >>)
    \/ \E d \in Devices : Construct(d)
    \/ \E d \in Devices, h \in Handles, version \in WrapVersions,
          names \in WrapNames, flags \in BOOLEAN, elided \in BOOLEAN :
             Wrap(d, h, version, names, flags, elided)
    \/ \E to \in Devices, from \in Devices : MoveConstruct(to, from)
    \/ \E d \in Devices : Release(d)
    \/ \E d \in Devices : Destroy(d)

SpecWrap == Init /\ [][NextWrap]_vars

\* Devices constructed, moved around and published as the global function
\* pointers
NextMove ==
    \/ CreateInfo(1, {})
    \/ state.queues = << >> /\ AddQueues(0, << 1 >>)
    \/ \E d \in Devices : Construct(d)
    \/ \E d \in Devices : ConstructNoCreate(d)
    \/ \E to \in Devices, from \in Devices : MoveConstruct(to, from)
    \/ \E to \in Devices, from \in Devices : MoveAssign(to, from)
    \/ \E d \in Devices : PopulateGlobalFunctionPointers(d)
    \/ \E d \in Devices : Destroy(d)

SpecMove == Init /\ [][NextMove]_vars

\* Physical devices a driver can report: up to MaxPhysicalDevices of
\* different handles and of the given types, without queue families
TypedDevices(types) ==
    {ds \in SeqUpTo([handle : PhysicalDevices, type : types, name : {"GPU"},
                     families : {<< >>}], MaxPhysicalDevices) :
        \A j \in 1..Len(ds), k \in 1..Len(ds) : j /= k => ds[j].handle /= ds[k].handle}

\* An instance of any version, with or without
\* VK_KHR_get_physical_device_properties2, on a driver with some devices
InitProperties ==
    /\ instance \in [version : Versions, disable : {<< >>}, enable : {<< >>},
                     verbose : {FALSE}, properties2 : BOOLEAN, device : {<< >>}]
    /\ physical \in [devices : TypedDevices({"DiscreteGpu", "Cpu"}), objects : {<< >>}, picked : {<< >>}, family : {<< >>}, text : {""}, ret : {0}]
    /\ InitRest

\* The devices are enumerated and their properties asked for
NextProperties ==
    \/ EnumerateDevices
    \/ \E i \in 1..MaxPhysicalDevices, getter \in PropertyGetters : Properties(i, getter)

SpecProperties == InitProperties /\ [][NextProperties]_vars

\* What --magnum-device is given: nothing, indices inside and past the
\* devices, a number followed by something else, the four types and other words
DeviceOptionInputs ==
    {<< >>, << "0" >>, << "1" >>, << "2" >>, << "6", "6", "6" >>, << "1", "x" >>,
     << "i", "n", "t", "e", "g", "r", "a", "t", "e", "d" >>,
     << "d", "i", "s", "c", "r", "e", "t", "e" >>,
     << "v", "i", "r", "t", "u", "a", "l" >>,
     << "c", "p", "u" >>,
     << "F", "A", "S", "T" >>, << "g", "p", "u" >>}

\* An instance started with or without --magnum-device on a driver with up
\* to MaxPhysicalDevices devices
InitPick ==
    /\ instance \in [version : {Vk10, Vk11}, disable : {<< >>}, enable : {<< >>},
                     verbose : {FALSE}, properties2 : {FALSE},
                     device : DeviceOptionInputs]
    /\ physical \in [devices : TypedDevices({"IntegratedGpu", "DiscreteGpu", "Cpu"}),
                     objects : {<< >>}, picked : {<< >>}, family : {<< >>}, text : {""}, ret : {0}]
    /\ InitRest

\* The devices are enumerated and one of them is picked
NextPick ==
    \/ EnumerateDevices
    \/ TryPickDevice
    \/ PickDevice

SpecPick == InitPick /\ [][NextPick]_vars

\* The queue families a physical device can have
FamilyFlagInputs ==
    {0, QueueFlagGraphics, QueueFlagCompute, QueueFlagGraphics + QueueFlagCompute}
\* Graphics families of one queue, compute families of two, families of both
\* kinds of one
FamilyInputs ==
    SeqUpTo({[flags |-> QueueFlagGraphics, count |-> 1],
             [flags |-> QueueFlagCompute, count |-> 2],
             [flags |-> QueueFlagGraphics + QueueFlagCompute, count |-> 1]}, MaxFamilies)

\* An instance of any version, with or without
\* VK_KHR_get_physical_device_properties2, on a driver with one physical
\* device that has up to MaxFamilies queue families
InitFamilies ==
    /\ instance \in [version : {Vk10, Vk11}, disable : {<< >>}, enable : {<< >>},
                     verbose : {FALSE}, properties2 : BOOLEAN, device : {<< >>}]
    /\ physical \in [devices : {<< [handle |-> 1, type |-> "DiscreteGpu", name |-> "GPU",
                                    families |-> fs] >> : fs \in FamilyInputs},
                     objects : {<< >>}, picked : {<< >>}, family : {<< >>}, text : {""}, ret : {0}]
    /\ InitRest

\* The device is enumerated and asked about itself and its queue families
NextFamilies ==
    \/ EnumerateDevices
    \/ Properties(1, "type")
    \/ QueueFamilyCount(1)
    \/ \E id \in 0..MaxFamilies : QueueFamilySize(1, id)
    \/ \E id \in 0..MaxFamilies : QueueFamilyFlags(1, id)
    \/ \E flags \in FamilyFlagInputs : TryPickQueueFamily(1, flags)
    \/ \E flags \in FamilyFlagInputs : PickQueueFamily(1, flags)

SpecFamilies == InitFamilies /\ [][NextFamilies]_vars

\* Extensions are added to a DeviceCreateInfo made on an instance started
\* without options
NextExtensions ==
    \/ \E flags \in FlagInputs : CreateInfo(1, flags)
    \/ \E views \in ViewInputs : AddEnabledExtensionsViews(views)
    \/ \E extensions \in KnownInputs : AddEnabledExtensionsKnown(extensions)

SpecExtensions == Init /\ [][NextExtensions]_vars

\* Lists of different priorities: short ones, and two that together overflow
\* the storage of QueuePrioritiesSize floats
MixedPriorityInputs ==
    SeqUpTo({1, 2}, MaxArgs) \cup {[k \in 1..16 |-> 3], [k \in 1..17 |-> 4]}

\* Queues of different priorities are added to a DeviceCreateInfo
NextPriorities ==
    \/ CreateInfo(1, {})
    \/ \E family \in 0..1, priorities \in MixedPriorityInputs : AddQueues(family, priorities)

SpecPriorities == Init /\ [][NextPriorities]_vars

\* What an application puts in a VkDeviceCreateInfo of its own: no, one or
\* two extension names and no or one queue of one priority
RawNameInputs == {<< >>, << 1 >>, << 3, 1 >>}
RawQueueInputs == {<< >>, << [family |-> 1, queueCount |-> 1, offset |-> 0, app |-> << 2 >>] >>}

\* A DeviceCreateInfo made from an existing VkDeviceCreateInfo is added to
\* and a Device is created from it
NextRaw ==
    \/ \E names \in RawNameInputs, queues \in RawQueueInputs : CreateInfoFromVk(1, names, queues)
    \/ \E views \in LocalViewInputs : AddEnabledExtensionsViews(views)
    \/ \E extensions \in KnownInputs : AddEnabledExtensionsKnown(extensions)
    \/ AddQueues(0, << 1 >>)
    \/ Construct(1)

SpecRaw == Init /\ [][NextRaw]_vars

\* An instance started with --magnum-disable-extensions
InitDisable ==
    /\ instance \in [version : {Vk12}, disable : NameLists, enable : {<< >>},
                     verbose : {FALSE}, properties2 : {FALSE}, device : {<< >>}]
    /\ physical = NoPhysical
    /\ InitRest

\* The application adds extensions to a DeviceCreateInfo and creates a Device
NextDisable ==
    \/ CreateInfo(1, {})
    \/ \E views \in LocalViewInputs : AddEnabledExtensionsViews(views)
    \/ \E extensions \in KnownInputs : AddEnabledExtensionsKnown(extensions)
    \/ state.queues = << >> /\ AddQueues(0, << 1 >>)
    \/ Construct(1)

SpecDisable == InitDisable /\ [][NextDisable]_vars

\* An instance started with --magnum-disable-extensions and
\* --magnum-enable-extensions
InitEnable ==
    /\ instance \in [version : {Vk12}, disable : NameLists, enable : NameLists,
                     verbose : {FALSE}, properties2 : {FALSE}, device : {<< >>}]
    /\ physical = NoPhysical
    /\ InitRest

\* A Device is created from a DeviceCreateInfo the application adds no
\* extensions to
NextEnable ==
    \/ \E flags \in FlagInputs : CreateInfo(1, flags)
    \/ AddQueues(0, << 1 >>)
    \/ Construct(1)

SpecEnable == InitEnable /\ [][NextEnable]_vars

\* Building the queue list of a DeviceCreateInfo and creating a Device from it
NextQueues ==
    \/ \E pd \in PhysicalDevices : CreateInfo(pd, {})
    \/ \E family \in 0..1, priorities \in PriorityInputs : AddQueues(family, priorities)
    \/ Construct(1)
    \/ Destroy(1)

SpecQueues == InitVersions /\ [][NextQueues]_vars

\* ------------------------------------------------------------------ claims
\* The known extensions a Device reports as enabled
EnabledKnownNames(dev) == {e.name : e \in {x \in KnownExtensions : IsExtensionEnabled(dev, x)}}

\* A Device object that holds a device
Holding(d) == device[d].st = "alive" /\ device[d].handle /= NullHandle

\* C1: with disable-extensions naming the set D, whatever addEnabledExtensions
\* calls were made, no name of D is in ppEnabledExtensionNames[0 ..
\* enabledExtensionCount), and a Device created from the info reports every
\* extension of D as not enabled.
C1_DisabledNeverEnabled ==
    info.kind = "props" =>
        /\ Range(instance.disable) \cap Range(EnabledExtensionNames(info, state)) = {}
        /\ \A d \in Devices :
             Holding(d) => Range(instance.disable) \cap EnabledKnownNames(device[d]) = {}

\* C1 witness: two disabled names given out of order, and a call that passed
\* two names of which only one was kept
C1_Witness ==
    /\ Len(instance.disable) = 2
    /\ instance.disable[1] > instance.disable[2]
    /\ last.op = "addEnabledExtensions"
    /\ last.count = 2
    /\ info.enabledExtensionCount = 1
    /\ info.ppEnabledExtensionNames = "state"

\* C2: every name of enable-extensions that is not also in disable-extensions
\* is in the enabled list of the constructed DeviceCreateInfo without any
\* addEnabledExtensions call, also with Flag::NoImplicitExtensions; a name
\* in both options is not enabled.
C2_CommandLineEnabled ==
    info.kind = "props" =>
        \A n \in Range(instance.enable) :
            n \in Range(EnabledExtensionNames(info, state)) <=> n \notin Range(instance.disable)

\* C2 witness: constructed with NoImplicitExtensions, one command-line
\* extension enabled and another one blacklisted
C2_Witness ==
    /\ last.op = "DeviceCreateInfo"
    /\ FlagNoImplicitExtensions \subseteq last.flags
    /\ Len(instance.enable) = 2
    /\ instance.enable[1] \in Range(instance.disable)
    /\ instance.enable[2] \notin Range(instance.disable)
    /\ info.enabledExtensionCount = 1

KnownNames == {e.name : e \in KnownExtensions}

\* C3: a Device made by the constructor or by wrap() reports a known
\* extension as enabled exactly when its name is among the enabled extension
\* names given at creation (none when the list is empty, and not an extension
\* that wrap() was not told about).
C3_EnabledExactlyWhenListed ==
    [][ /\ \A d \in Devices, h \in Handles, version \in WrapVersions, names \in WrapNames,
              flags \in BOOLEAN, elided \in BOOLEAN :
             (Wrap(d, h, version, names, flags, elided) /\ ~aborted') =>
                EnabledKnownNames(device'[d]) = Range(names) \cap KnownNames
        /\ \A d \in Devices :
             (Construct(d) /\ device'[d].handle /= NullHandle) =>
                EnabledKnownNames(device'[d]) =
                    Range(EnabledExtensionNames(info, state)) \cap KnownNames
      ]_vars

\* C4: a Device constructed from a DeviceCreateInfo built for a
\* DeviceProperties has version() = min(instance version, apiVersion());
\* isVersionSupported(v) holds exactly when v <= version(); a Device made by
\* wrap() has exactly the version passed to wrap().
C4_Version ==
    [][ /\ \A d \in Devices :
             (Construct(d) /\ device'[d].handle /= NullHandle) =>
                /\ device'[d].version =
                      Min(instance.version, ApiVersionOf(info.physicalDevice))
                /\ \A v \in Versions \cup {VersionNone} :
                      IsVersionSupported(device'[d], v) <=> v <= device'[d].version
        /\ \A d \in Devices, h \in Handles, version \in WrapVersions, names \in WrapNames,
              flags \in BOOLEAN, elided \in BOOLEAN :
             (Wrap(d, h, version, names, flags, elided) /\ ~aborted') =>
                device'[d].version = version
      ]_vars

\* C5: constructing a Device from an info with queueCreateInfoCount = 0 fails
\* the precondition with its message: CreateDevice is not called, the handle
\* stays null, and destroying that Device does not call DestroyDevice.
C5_NoQueue ==
    [][ /\ \A d \in Devices :
             (Construct(d) /\ info.queueCreateInfoCount = 0) =>
                /\ last'.error = "Vk::Device: needs to be created with at least one queue"
                /\ native' = native
                /\ ~aborted' => (device'[d].st = "alive" /\ device'[d].handle = NullHandle)
        /\ \A d \in Devices :
             (Destroy(d) /\ device[d].handle = NullHandle) =>
                /\ native' = native
                /\ last'.destroyed = NullHandle
                /\ ~aborted'
      ]_vars

\* C5 witness: the only Device was constructed without a queue (CreateDevice
\* was never called) and has been destroyed
C5_Witness ==
    /\ last.op = "~Device"
    /\ device[1].st = "dead"
    /\ last.dev.handle = NullHandle
    /\ last.dev.flags
    /\ last.destroyed = NullHandle
    /\ native.createCalls = 0

\* C6: addQueues(family, priorities) with an empty priorities list reports its
\* message and leaves the DeviceCreateInfo as it was: queueCreateInfoCount,
\* the queue list and the next free priority slot do not change.
C6_NoPriorities ==
    [][ \A family \in 0..1 :
          AddQueues(family, << >>) =>
             /\ last'.error =
                  "Vk::DeviceCreateInfo::addQueues(): at least one queue priority has to be specified"
             /\ info' = info
             /\ state' = state
      ]_vars

\* C6 witness: the failed call came after a queue had been added
C6_Witness ==
    /\ last.op = "addQueues"
    /\ last.error =
         "Vk::DeviceCreateInfo::addQueues(): at least one queue priority has to be specified"
    /\ ~aborted
    /\ info.queueCreateInfoCount = 1
    /\ state.nextQueuePriority > 0

\* C7: a DeviceCreateInfo constructed for a device has one (graphics +
\* compute) queue before any addQueues call.
C7_DefaultQueue ==
    last.op = "DeviceCreateInfo" => info.queueCreateInfoCount = 1

\* C8: destroying a Device calls DestroyDevice on its handle exactly when the
\* handle is not null and DestroyOnDestruction is set; the constructor always
\* sets DestroyOnDestruction; wrap() without the flag gives a Device whose
\* destruction destroys nothing.
C8_DestroyOnDestruction ==
    [][ /\ \A d \in Devices :
             Destroy(d) =>
                IF device[d].handle /= NullHandle /\ device[d].flags
                THEN /\ last'.destroyed = device[d].handle
                     /\ native'.destroyed[device[d].handle] =
                            native.destroyed[device[d].handle] + 1
                ELSE /\ last'.destroyed = NullHandle
                     /\ native' = native
        /\ \A d \in Devices :
             (Construct(d) /\ device'[d].st = "alive") => device'[d].flags
        /\ \A d \in Devices, h \in Handles, elided \in BOOLEAN :
             (Wrap(d, h, Vk10, << >>, FALSE, elided) /\ ~aborted') =>
                /\ ~device'[d].flags
                /\ device'[d].handle = h
      ]_vars

\* C8 witness: a Device that held a handle without DestroyOnDestruction has
\* just been destroyed and its device is still there, after another Device
\* that had the flag was destroyed and took its device with it
C8_Witness ==
    /\ last.op = "~Device"
    /\ last.dev.handle /= NullHandle
    /\ ~last.dev.flags
    /\ last.destroyed = NullHandle
    /\ last.dev.handle \in native.live
    /\ native.destroyed[last.dev.handle] = 0
    /\ \E h \in Handles : native.destroyed[h] = 1 /\ h \notin native.live

\* C9: release() returns the current handle and gives up ownership: handle()
\* is null afterwards and destroying the Device does not call DestroyDevice
\* even with DestroyOnDestruction set, so the handle stays valid.
C9_Release ==
    [][ /\ \A d \in Devices :
             Release(d) =>
                /\ last'.ret = device[d].handle
                /\ device'[d].handle = NullHandle
                /\ device'[d].flags = device[d].flags
                /\ native' = native
        /\ \A d \in Devices :
             (Destroy(d) /\ device[d].handle = NullHandle /\ device[d].flags) =>
                /\ native'.live = native.live
                /\ native'.destroyed = native.destroyed
      ]_vars

\* C9 witness: a Device with DestroyOnDestruction that had released its
\* device has just been destroyed, and the device it released still exists
C9_Witness ==
    /\ last.op = "~Device"
    /\ last.dev.handle = NullHandle
    /\ last.dev.flags
    /\ last.dev.fp \in native.live
    /\ native.destroyed[last.dev.fp] = 0

\* C10: after release() the Device is in the moved-from state, the state of
\* the source of a move construction and of a Device(NoCreate): null handle,
\* null function pointers, no extension-dependent state.
C10_ReleasedIsMovedFrom ==
    [][ \A d \in Devices :
          Release(d) =>
             /\ device'[d].handle = NoCreateDevice.handle
             /\ device'[d].fp = NoCreateDevice.fp
             /\ device'[d].state = NoCreateDevice.state
             /\ device'[d] = MovedFrom(device[d])
      ]_vars

\* C11: move construction leaves the source with a null handle and gives the
\* new Device the source's former handle, handle flags and function pointers;
\* move assignment into a NoCreate Device gives that Device the source's
\* former handle, flags and function pointers and leaves the source with a
\* null handle, empty flags and null function pointers.
C11_Move ==
    [][ /\ \A to \in Devices, from \in Devices :
             MoveConstruct(to, from) =>
                /\ device'[from].handle = NullHandle
                /\ device'[to].handle = device[from].handle
                /\ device'[to].flags = device[from].flags
                /\ device'[to].fp = device[from].fp
        /\ \A to \in Devices, from \in Devices :
             (MoveAssign(to, from) /\ device[to] = NoCreateDevice) =>
                /\ device'[to].handle = device[from].handle
                /\ device'[to].flags = device[from].flags
                /\ device'[to].fp = device[from].fp
                /\ device'[from].handle = NullHandle
                /\ ~device'[from].flags
                /\ device'[from].fp = NullHandle
      ]_vars

\* C11 witness: a constructed Device was just move-assigned into a NoCreate one
C11_Witness ==
    /\ last.op = "operator="
    /\ \E to \in Devices, from \in Devices :
         /\ device[to].st = "alive"
         /\ device[to].handle \in Handles
         /\ device[to].flags
         /\ device[to].fp = device[to].handle
         /\ device[from].st = "alive"
         /\ device[from].handle = NullHandle
         /\ ~device[from].flags
         /\ device[from].fp = NullHandle

\* C12: constructing a Device leaves the global function pointers alone; they
\* change only in populateGlobalFunctionPointers(), after which every global
\* pointer is the one of the calling Device.
C12_GlobalFunctionPointers ==
    [][ /\ \A d \in Devices : Construct(d) => global' = global
        /\ global' /= global => \E d \in Devices : PopulateGlobalFunctionPointers(d)
        /\ \A d \in Devices :
             PopulateGlobalFunctionPointers(d) =>
                \A f \in DeviceFunctions : global'[f] = device[d].fp
      ]_vars

\* C12 witness: the global pointers were those of one Device and have just
\* been replaced by those of another
C12_Witness ==
    /\ last.op = "populateGlobalFunctionPointers"
    /\ \E d \in Devices, e \in Devices :
         /\ device[d].st = "alive" /\ device[e].st = "alive"
         /\ device[d].fp \in Handles /\ device[e].fp \in Handles
         /\ device[d].fp /= device[e].fp
         /\ \A f \in DeviceFunctions : global[f] = device[d].fp
         /\ last.ret = device[e].fp

\* The native device-properties queries among the queries issued for o
PropertyQueries(o) ==
    Cardinality({k \in DOMAIN o.queries :
        o.queries[k].fn \in {"GetPhysicalDeviceProperties", "GetPhysicalDeviceProperties2KHR",
                             "GetPhysicalDeviceProperties2"}})

\* C13: the native device-properties query is not issued when a
\* DeviceProperties is constructed, is issued by the first of properties(),
\* apiVersion(), driverVersion(), type() and name(), and at most once over all
\* of them; every call returns its part of the same cached structure, the
\* one the driver reported.
C13_LazyProperties ==
    [][ /\ EnumerateDevices =>
             \A i \in 1..Len(physical'.objects) : PropertyQueries(physical'.objects[i]) = 0
        /\ \A i \in 1..MaxPhysicalDevices, getter \in PropertyGetters :
             Properties(i, getter) =>
                LET before == physical.objects[i]
                    after == physical'.objects[i]
                IN /\ PropertyQueries(before) = 0 => PropertyQueries(after) = 1
                   /\ PropertyQueries(before) > 0 =>
                         /\ PropertyQueries(after) = PropertyQueries(before)
                         /\ after.properties = before.properties
                   /\ PropertyQueries(after) <= 1
                   /\ after.properties.properties = CoreProperties(NativeDevice(after.handle))
                   /\ getter \in {"apiVersion", "driverVersion"} =>
                         physical'.ret = ProjectedNumber(getter, after.properties)
                   /\ getter \in {"type", "name"} =>
                         physical'.text = ProjectedText(getter, after.properties)
      ]_vars

\* C13 witness: type() was just answered for the second enumerated device
\* from the cache that an earlier call had filled
C13_Witness ==
    /\ last.op = "type"
    /\ last.object = 2
    /\ last.queries = 0
    /\ PropertyQueries(physical.objects[2]) = 1
    /\ physical.text = physical.devices[2].type
    /\ physical.devices[1].type /= physical.devices[2].type

\* The native queue-family queries among the queries issued for o
FamilyQueries(o) == SelectSeq(o.queries, LAMBDA q : q.arg \in {"count", "data"})

\* A call of one of the functions that go through queueFamilyProperties()
FamilyStep(i) ==
    \/ QueueFamilyCount(i)
    \/ \E id \in 0..MaxFamilies : QueueFamilySize(i, id)
    \/ \E id \in 0..MaxFamilies : QueueFamilyFlags(i, id)
    \/ \E flags \in FamilyFlagInputs : TryPickQueueFamily(i, flags)
    \/ \E flags \in FamilyFlagInputs : PickQueueFamily(i, flags)

\* C14: for any physical device, also one without queue families, the first
\* call of queueFamilyCount(), queueFamilySize(), queueFamilyFlags(),
\* tryPickQueueFamily() or pickQueueFamily() issues the native count query and
\* then the data query, and no later call issues them again.
C14_LazyQueueFamilies ==
    [][ FamilyStep(1) =>
          LET before == FamilyQueries(physical.objects[1])
              after == FamilyQueries(physical'.objects[1])
          IN /\ before = << >> =>
                   /\ Len(after) = 2
                   /\ after[1].arg = "count"
                   /\ after[2].arg = "data"
             /\ before /= << >> => after = before
      ]_vars

\* The entry point the claimed gating picks for what is asked
GatedEntryPoint(arg) ==
    LET tier == IF instance.version >= Vk11 THEN "2"
                ELSE IF instance.properties2 THEN "2KHR" ELSE ""
    IN (IF arg = "properties" THEN "GetPhysicalDeviceProperties"
        ELSE "GetPhysicalDeviceQueueFamilyProperties") \o tier

\* C15: every native query goes through the entry point the instance's
\* version and extension pick: the Vulkan 1.1 one if the instance supports
\* Vulkan 1.1, else the KHR one if KHR_get_physical_device_properties2 is
\* enabled, else the Vulkan 1.0 one, which fills only the 1.0 part and leaves
\* pNext null; property and queue-family queries use the same tier.
C15_Gating ==
    \A i \in 1..Len(physical.objects) :
        LET o == physical.objects[i]
        IN /\ \A k \in 1..Len(o.queries) : o.queries[k].fn = GatedEntryPoint(o.queries[k].arg)
           /\ (o.sType /\ instance.version < Vk11 /\ ~instance.properties2) =>
                 o.properties.pNext = "null"

\* C15 witness: a Vulkan 1.0 instance with the extension has asked for the
\* properties and the queue families of a device
C15_Witness ==
    /\ instance.version = Vk10
    /\ instance.properties2
    /\ Len(physical.objects) = 1
    /\ PropertyQueries(physical.objects[1]) = 1
    /\ Len(FamilyQueries(physical.objects[1])) = 2
    /\ physical.objects[1].queries[1].fn = "GetPhysicalDeviceQueueFamilyProperties2KHR"

\* The indices of the cached families that have all of the flags
Matching(o, flags) ==
    {id \in 0..(Len(o.queueFamilyProperties) - 1) :
        AndBits(o.queueFamilyProperties[id + 1].queueFlags.v, flags) = flags}

Smallest(S) == CHOOSE x \in S : \A y \in S : x <= y

\* C16: tryPickQueueFamily(flags) returns the smallest index whose
\* queueFamilyFlags() contain all of flags, and NullOpt with an error printed
\* exactly when there is none; pickQueueFamily(flags) returns the same index
\* and otherwise exits with status 1.
C16_PickQueueFamily ==
    [][ \A flags \in FamilyFlagInputs :
          /\ (last'.op = "tryPickQueueFamily" /\ TryPickQueueFamily(1, flags) /\ ~aborted') =>
                LET matching == Matching(physical'.objects[1], flags)
                IN IF matching = {}
                   THEN physical'.family = << >> /\ last'.error /= ""
                   ELSE physical'.family = << Smallest(matching) >> /\ last'.error = ""
          /\ (last'.op = "pickQueueFamily" /\ PickQueueFamily(1, flags)) =>
                LET matching == Matching(physical'.objects[1], flags)
                IN /\ ~aborted' => (matching /= {} /\ physical'.family = << Smallest(matching) >>)
                   /\ last'.exit = "1" => matching = {}
                   /\ matching = {} => aborted'
                   /\ last'.exit \in {"", "1"}
      ]_vars

\* C16 witness: tryPickQueueFamily() passed over family 0 and returned 1
C16_Witness ==
    /\ last.op = "tryPickQueueFamily"
    /\ ~aborted
    /\ physical.family = << 1 >>
    /\ physical.objects[1].queueFamilyProperties[1].queueFlags.v /= 0

\* C17: queueFamilySize(id) and queueFamilyFlags(id) with id >=
\* queueFamilyCount() fail with "Vk::DeviceProperties::queueFamilySize(): index
\* <id> out of range for <count> entries" and
\* "Vk::DeviceProperties::queueFamilyFlags(): index <id> out of range for
\* <count> entries" and return a default value.
C17_OutOfRange ==
    [][ \A id \in 0..MaxFamilies :
          LET count == Len(physical'.objects[1].queueFamilyProperties)
              range == "(): index " \o ToString(id) \o " out of range for "
                          \o ToString(count) \o " entries"
          IN /\ (QueueFamilySize(1, id) /\ id >= count /\ ~(aborted' /\ last'.error = "")) =>
                   /\ last'.error = "Vk::DeviceProperties::queueFamilySize" \o range
                   /\ physical'.ret = 0
             /\ (QueueFamilyFlags(1, id) /\ id >= count /\ ~(aborted' /\ last'.error = "")) =>
                   /\ last'.error = "Vk::DeviceProperties::queueFamilyFlags" \o range
                   /\ physical'.ret = 0
      ]_vars

\* The device types the option can name
TypeOptions ==
    {[value |-> << "i", "n", "t", "e", "g", "r", "a", "t", "e", "d" >>, type |-> "IntegratedGpu"],
     [value |-> << "d", "i", "s", "c", "r", "e", "t", "e" >>, type |-> "DiscreteGpu"],
     [value |-> << "v", "i", "r", "t", "u", "a", "l" >>, type |-> "VirtualGpu"],
     [value |-> << "c", "p", "u" >>, type |-> "Cpu"]}

\* The Optional holds a DeviceProperties of the k-th device the driver reports
PickedIs(picked, k) ==
    /\ Len(picked) = 1
    /\ picked[1].handle = physical.devices[k].handle

\* The numbers of the devices the driver reports as being of the type
OfType(type) == {k \in 1..Len(physical.devices) : physical.devices[k].type = type}

\* C18: tryPickDevice() returns the first device with no option, the device
\* at the index for a value starting with a digit, the first device of the
\* type for integrated/discrete/virtual/cpu, and NullOpt if there is no such
\* device or the value is anything else; what it returns is always one of the
\* enumerated devices.
C18_TryPickDevice ==
    [][ TryPickDevice =>
          LET value == instance.device
              size == Len(physical.devices)
              picked == physical'.picked
              named == {o \in TypeOptions : o.value = value}
          IN /\ value = << >> =>
                   IF size = 0 THEN picked = << >> ELSE PickedIs(picked, 1)
             /\ (value /= << >> /\ IsDigit(value[1])) =>
                   IF ParsedUnsignedInt(value) >= size THEN picked = << >>
                   ELSE PickedIs(picked, ParsedUnsignedInt(value) + 1)
             /\ \A o \in named :
                   IF OfType(o.type) = {} THEN picked = << >>
                   ELSE PickedIs(picked, Smallest(OfType(o.type)))
             /\ (value /= << >> /\ ~IsDigit(value[1]) /\ named = {}) => picked = << >>
             /\ \A k \in 1..Len(picked) :
                   \E j \in 1..size : picked[k].handle = physical.devices[j].handle
      ]_vars

\* C18 witness: --magnum-device cpu passed over a device of another type and
\* returned the second one
C18_Witness ==
    /\ last.op = "tryPickDevice"
    /\ instance.device = << "c", "p", "u" >>
    /\ Len(physical.devices) = 2
    /\ physical.devices[1].type /= "Cpu"
    /\ Len(physical.picked) = 1
    /\ physical.picked[1].handle = physical.devices[2].handle

\* C19: a failing tryPickDevice() prints "Vk::tryPickDevice(): no Vulkan
\* device of type <type> found" when no device has the requested type,
\* "Vk::tryPickDevice(): index <id> out of bounds for <count> Vulkan devices"
\* for an index past the end and "Vk::tryPickDevice(): unknown Vulkan device
\* type <value>" for a value it does not know.
C19_PickDeviceErrors ==
    [][ (TryPickDevice /\ physical'.picked = << >> /\ instance.device /= << >>) =>
          LET value == instance.device
              named == {o \in TypeOptions : o.value = value}
          IN IF IsDigit(value[1])
             THEN last'.error = "Vk::tryPickDevice(): index "
                                   \o ToString(ParsedUnsignedInt(value))
                                   \o " out of bounds for "
                                   \o ToString(Len(physical.devices))
                                   \o " Vulkan devices"
             ELSE IF named = {}
             THEN last'.error = "Vk::tryPickDevice(): unknown Vulkan device type "
                                   \o Text(value)
             ELSE \A o \in named :
                     last'.error = "Vk::tryPickDevice(): no Vulkan device of type Vk::DeviceType::"
                                      \o o.type \o " found"
      ]_vars

\* C20: enumerateDevices() returns one DeviceProperties per physical device
\* the driver reports, in the driver's order, the i-th wrapping the i-th
\* handle.
C20_EnumerateDevices ==
    (last.op = "enumerateDevices" \/ physical.objects /= << >>) =>
        /\ Len(physical.objects) = Len(physical.devices)
        /\ \A i \in 1..Len(physical.objects) :
              physical.objects[i].handle = physical.devices[i].handle

\* C20 witness: two devices of different handles were enumerated
C20_Witness ==
    /\ last.op = "enumerateDevices"
    /\ Len(physical.objects) = 2
    /\ physical.objects[1].handle /= physical.objects[2].handle
    /\ physical.objects[2].handle = physical.devices[2].handle

\* The names of the views or extensions of a list
NamesOf(list) == [k \in 1..Len(list) |-> list[k].name]

\* C21: with no disabled extensions, a constructed DeviceCreateInfo lists
\* nothing and has a null ppEnabledExtensionNames, and every
\* addEnabledExtensions call appends the names it was given, in their order and
\* with duplicates, to the list, enabledExtensionCount being the length of the
\* list; the pointer stays null as long as nothing was added; the entries
\* added through the Extension overloads are the global strings, not copies.
C21_EnabledExtensions ==
    [][ /\ (\E flags \in FlagInputs : CreateInfo(1, flags)) =>
             /\ info'.enabledExtensionCount = 0
             /\ info'.ppEnabledExtensionNames = "null"
        /\ \A views \in ViewInputs :
             AddEnabledExtensionsViews(views) =>
                /\ ExtensionArray(info', state') =
                      ExtensionArray(info, state) \o NamesOf(views)
                /\ info'.enabledExtensionCount = Len(ExtensionArray(info', state'))
                /\ (info'.ppEnabledExtensionNames = "null") <=>
                      (info.ppEnabledExtensionNames = "null" /\ views = << >>)
        /\ \A extensions \in KnownInputs :
             AddEnabledExtensionsKnown(extensions) =>
                /\ ExtensionArray(info', state') =
                      ExtensionArray(info, state) \o NamesOf(extensions)
                /\ info'.enabledExtensionCount = Len(ExtensionArray(info', state'))
                /\ (info'.ppEnabledExtensionNames = "null") <=>
                      (info.ppEnabledExtensionNames = "null" /\ extensions = << >>)
                /\ \A k \in (Len(state.extensions) + 1)..Len(state'.extensions) :
                      state'.extensions[k].owned = 0
      ]_vars

\* C21 witness: the same extension was added in two calls, the second one
\* through the Extension overload, and is listed twice
C21_Witness ==
    /\ last.op = "addEnabledExtensions"
    /\ info.enabledExtensionCount = 2
    /\ state.extensions[1].name = state.extensions[2].name
    /\ state.extensions[1].owned /= 0
    /\ state.extensions[2].owned = 0

\* C22: addEnabledExtensions lists a copy it owns for every view that is not
\* both global and null-terminated and the view's own pointer otherwise; every
\* earlier entry of the list and the string it points to are the same after
\* any later addEnabledExtensions call.
C22_OwnedCopies ==
    [][ \A views \in ViewInputs :
          AddEnabledExtensionsViews(views) =>
             LET before == Len(state.extensions)
             IN /\ \A k \in 1..Len(views) :
                     LET entry == state'.extensions[before + k]
                     IN IF views[k].global /\ views[k].nullTerminated
                        THEN entry.owned = 0
                        ELSE /\ entry.owned \in 1..Len(state'.ownedStrings)
                             /\ state'.ownedStrings[entry.owned] = views[k].name
                             /\ \A j \in 1..Len(state'.extensions) :
                                   state'.extensions[j].owned = entry.owned => j = before + k
                /\ \A k \in 1..before : state'.extensions[k] = state.extensions[k]
                /\ \A j \in 1..Len(state.ownedStrings) :
                     state'.ownedStrings[j] = state.ownedStrings[j]
      ]_vars

\* C22 witness: a list whose first entry is a copy of a global string that is
\* not null-terminated grew by an entry that is no copy
C22_Witness ==
    /\ last.op = "addEnabledExtensions"
    /\ Len(state.extensions) = 2
    /\ state.extensions[1].owned = 1
    /\ state.extensions[2].owned = 0
    /\ Len(state.ownedStrings) = 1

\* C23: a DeviceCreateInfo constructed with Flag::NoImplicitExtensions and no
\* enable-extensions option has enabledExtensionCount 0 and a null
\* ppEnabledExtensionNames; bit 31 (NoImplicitExtensions) is never set in the
\* native flags and every other bit of the flags given is passed unchanged.
C23_NoImplicitExtensions ==
    [][ \A flags \in FlagInputs :
          CreateInfo(1, flags) =>
             /\ 31 \notin info'.flags
             /\ \A bit \in FlagBits \ {31} : bit \in info'.flags <=> bit \in flags
             /\ (31 \in flags /\ instance.enable = << >>) =>
                   /\ info'.enabledExtensionCount = 0
                   /\ info'.ppEnabledExtensionNames = "null"
      ]_vars

\* C23 witness: constructed with NoImplicitExtensions and one more bit, of
\* which only the other one reached the native flags
C23_Witness ==
    /\ last.op = "DeviceCreateInfo"
    /\ last.flags = FlagNoImplicitExtensions \cup {0}
    /\ info.flags = {0}
    /\ info.enabledExtensionCount = 0
    /\ info.ppEnabledExtensionNames = "null"

\* VkQueueFamilyProperties f converted to VkQueueFamilyProperties2 in a buffer
\* of its own
ConvertedApart(f) ==
    LET image == FamilyImage(f)
    IN [sType |-> Unit("sType", QueueFamilyProperties2),
        pNext |-> << Unit("pNext", 0), Unit("pNext", 0) >>,
        queueFlags |-> image[1], queueCount |-> image[2],
        timestampValidBits |-> image[3],
        minImageTransferGranularity |-> << image[4], image[5], image[6] >>]

\* C24: on the Vulkan 1.0 path every entry i of the cached queue family array
\* has sType set, pNext null and queueFamilyProperties equal to the i-th
\* entry the native query returned, as if converted into a separate buffer.
C24_Sparsen ==
    \A k \in 1..Len(physical.objects) :
        LET o == physical.objects[k]
        IN (QueueFamilyPropertiesImplementation(instance) = "GetPhysicalDeviceQueueFamilyProperties"
              /\ ~FamiliesNotFetched(o)) =>
              /\ Len(o.queueFamilyProperties) = Len(NativeDevice(o.handle).families)
              /\ \A i \in 1..Len(o.queueFamilyProperties) :
                    o.queueFamilyProperties[i] = ConvertedApart(NativeDevice(o.handle).families[i])

\* The floats pQueuePriorities[0 .. queueCount) of a queue create info that
\* points into the storage of st
PrioritiesOf(st, q) == [k \in 1..q.queueCount |-> st.queuePriorities[q.offset + k]]

\* The places of the storage a queue create info points to
SliceOf(q) == (q.offset + 1)..(q.offset + q.queueCount)

\* C25: a successful addQueues(family, priorities) call raises
\* queueCreateInfoCount by one and appends a queue create info with that
\* family, as many queues as priorities, and a range of the 32-entry storage
\* that holds these priorities and is disjoint from the ranges of the earlier
\* calls, whose infos and priorities stay as they were; a failing call adds
\* nothing, and a call that would bring the total above 32 priorities fails an
\* assertion and writes nothing.
C25_Queues ==
    [][ \A family \in 0..1, priorities \in MixedPriorityInputs :
          AddQueues(family, priorities) =>
             LET before == info.queueCreateInfoCount
                 total == state.nextQueuePriority + Len(priorities)
             IN /\ before = Len(state.queues)
                /\ \A k \in 1..before :
                      /\ state'.queues[k] = state.queues[k]
                      /\ PrioritiesOf(state', state'.queues[k]) = PrioritiesOf(state, state.queues[k])
                /\ IF priorities = << >> \/ total > QueuePrioritiesSize
                   THEN /\ info'.queueCreateInfoCount = before
                        /\ Len(state'.queues) = before
                        /\ state'.queuePriorities = state.queuePriorities
                        /\ last'.error /= ""
                        /\ total > QueuePrioritiesSize => aborted'
                   ELSE /\ info'.queueCreateInfoCount = before + 1
                        /\ Len(state'.queues) = before + 1
                        /\ info'.pQueueCreateInfos = "state"
                        /\ LET q == state'.queues[before + 1]
                           IN /\ q.family = family
                              /\ q.queueCount = Len(priorities)
                              /\ PrioritiesOf(state', q) = priorities
                              /\ SliceOf(q) \subseteq 1..QueuePrioritiesSize
                              /\ \A k \in 1..before :
                                    SliceOf(q) \cap SliceOf(state.queues[k]) = {}
      ]_vars

\* C25 witness: a second call added two priorities behind the different one
\* of the first call
C25_Witness ==
    /\ last.op = "addQueues"
    /\ last.error = ""
    /\ info.queueCreateInfoCount = 2
    /\ state.queues[1].queueCount = 1
    /\ state.queues[2].queueCount = 2
    /\ state.queues[2].offset = 1
    /\ state.queuePriorities[1] /= state.queuePriorities[2]

\* C26: after Device(Device&&) and operator=(Device&&) from a Device that
\* holds a device, the destination's version(), isVersionSupported() and
\* isExtensionEnabled() are what the source's were before the move.
C26_MoveKeepsBookkeeping ==
    [][ \A to \in Devices, from \in Devices :
          ((MoveConstruct(to, from) \/ MoveAssign(to, from)) /\ Holding(from)) =>
             /\ device'[to].version = device[from].version
             /\ \A v \in Versions :
                   IsVersionSupported(device'[to], v) = IsVersionSupported(device[from], v)
             /\ \A e \in KnownExtensions :
                   IsExtensionEnabled(device'[to], e) = IsExtensionEnabled(device[from], e)
      ]_vars

\* C27: while the enabled extensions of a Device are recorded no element at
\* or past the end of a list of known extensions is read, and the only
\* extension bits set are those of enabled names that are known extensions.
C27_LookupInRange ==
    /\ ~last.oob
    /\ (last.op = "Device" /\ last.error = "") => ~aborted
    /\ \A d \in Devices :
          (Holding(d) /\ info.kind = "props") =>
              EnabledKnownNames(device[d]) \subseteq Range(EnabledExtensionNames(info, state))

\* C28: a Device constructed from a DeviceCreateInfo that has queues but no
\* internal state gets the apiVersion() of the physical device as its version,
\* logs nothing and does not fail.
C28_NoState ==
    [][ (Construct(1) /\ ~state.present /\ info.queueCreateInfoCount > 0
            /\ last'.error /= "assertion failed") =>
          /\ last'.error = ""
          /\ last'.log = << >>
          /\ ~aborted' => device'[1].version = ApiVersionOf(info.physicalDevice)
      ]_vars

\* C29: no addEnabledExtensions or addQueues call drops an entry the
\* DeviceCreateInfo has: enabledExtensionCount and queueCreateInfoCount never
\* decrease, the names listed before a call are listed after it, and with no
\* extension disabled adding m extensions raises the count by m, also for an
\* info made from a VkDeviceCreateInfo that lists extensions or queues.
C29_NothingDropped ==
    [][ info.kind /= "none" =>
          /\ info'.enabledExtensionCount >= info.enabledExtensionCount
          /\ info'.queueCreateInfoCount >= info.queueCreateInfoCount
          /\ Range(EnabledExtensionNames(info, state)) \subseteq
                Range(EnabledExtensionNames(info', state'))
          /\ (last'.op = "addEnabledExtensions" /\ instance.disable = << >>) =>
                info'.enabledExtensionCount = info.enabledExtensionCount + last'.count
      ]_vars

\* The Device objects that hold h with DestroyOnDestruction
Owners(h) ==
    {d \in Devices : device[d].st = "alive" /\ device[d].handle = h /\ device[d].flags}

\* Every handle has at most one owning Device and was destroyed once at
\* most, and an owned handle is a device that exists and was never destroyed
SingleOwner ==
    \A h \in Handles :
        /\ Cardinality(Owners(h)) <= 1
        /\ native.destroyed[h] <= 1
        /\ Owners(h) /= {} => (h \in native.live /\ native.destroyed[h] = 0)

====
